---- MODULE Spec2Model ----
(***************************************************************************)
(* Model of the monitoring daemon of quectel-rm520n-thermal:               *)
(* daemon_mode (src/src/daemon.c), the AT+QTEMP response parser            *)
(* (src/src/temperature.c) and the configuration reload                    *)
(* (src/src/config.c).  C strings are TLA+ strings; a character is a       *)
(* string of length one.                                                   *)
(***************************************************************************)
EXTENDS Integers, Sequences, FiniteSets, TLC

(***************************************************************************)
(* Program constants (src/src/include/common.h)                            *)
(***************************************************************************)
SERIAL_MAX_RECONNECT_ATTEMPTS == 5
SERIAL_INITIAL_RECONNECT_DELAY == 10
SERIAL_MAX_RECONNECT_DELAY == 60
SERIAL_MAX_FAILED_CYCLES == 3
TEMP_ABSOLUTE_MIN == -40000
TEMP_ABSOLUTE_MAX == 125000
INT_MAX == 2147483647
\* daemon.c:486, the literal of "++serial_reconnect_attempts > 3"
AT_FAILURE_LIMIT == 3
STATS_LOG_INTERVAL == 100

\* C integer division truncates toward zero; \div floors.
CDiv(a, b) == IF a >= 0 THEN a \div b ELSE -((-a) \div b)

TEMP_VALID_MIN == CDiv(TEMP_ABSOLUTE_MIN, 1000)
TEMP_VALID_MAX == CDiv(TEMP_ABSOLUTE_MAX, 1000)

(***************************************************************************)
(* Bounds of the model                                                     *)
(***************************************************************************)
\* ticks explored under Spec (every environment choice free)
MaxIter == 6
\* ticks explored under SpecOutage (the serial device never opens)
MaxOutageIter == 17
\* configuration reloads that fall due in one run
MaxReloads == 2
\* ticks explored under SpecTick (every answer, every sink state)
MaxTickIter == 1
NProcs == 3
MaxStatsIter == 100
MaxRecoveryIter == 7
StatsHealthyTicks == 94

(***************************************************************************)
(* libc string helpers                                                     *)
(***************************************************************************)
CharAt(s, i) == IF i >= 1 /\ i <= Len(s) THEN SubSeq(s, i, i) ELSE ""

\* strstr: index (1-based) of the first occurrence of n in h, 0 if none
StrStr(h, n) ==
    LET hits == {i \in 1..(Len(h) - Len(n) + 1) : SubSeq(h, i, i + Len(n) - 1) = n}
    IN  IF hits = {} THEN 0 ELSE CHOOSE i \in hits : \A j \in hits : i <= j

Contains(h, n) == StrStr(h, n) # 0

IsDigit(c) == c \in {"0", "1", "2", "3", "4", "5", "6", "7", "8", "9"}

IsSpace(c) == c \in {" ", "\t", "\n", "\r", "\f"}

DigitVal(c) ==
    CASE c = "0" -> 0 [] c = "1" -> 1 [] c = "2" -> 2 [] c = "3" -> 3
      [] c = "4" -> 4 [] c = "5" -> 5 [] c = "6" -> 6 [] c = "7" -> 7
      [] c = "8" -> 8 [] c = "9" -> 9

\* the run of decimal digits of s that starts at index i, as <<value, next index>>
RECURSIVE DigitRun(_, _, _)
DigitRun(s, i, acc) ==
    IF IsDigit(CharAt(s, i)) THEN DigitRun(s, i + 1, acc * 10 + DigitVal(CharAt(s, i)))
    ELSE <<acc, i>>

\* strtol(s + i - 1, &endptr, 10) for a text whose first character is a digit
\* or '-': [ok |-> a conversion was made and fits an int, val |-> its value]
StrToL(s, i) ==
    LET neg   == CharAt(s, i) = "-"
        first == IF neg THEN i + 1 ELSE i
        run   == DigitRun(s, first, 0)
        val   == IF neg THEN -run[1] ELSE run[1]
    IN  [ok |-> run[2] > first /\ val >= -INT_MAX - 1 /\ val <= INT_MAX, val |-> val]

(***************************************************************************)
(* Response parser (src/src/temperature.c)                                 *)
(***************************************************************************)
RECURSIVE BackToLineBreak(_, _)
BackToLineBreak(s, i) ==
    IF i > 1 /\ CharAt(s, i) # "\n" /\ CharAt(s, i) # "\r"
    THEN BackToLineBreak(s, i - 1) ELSE i

\* first index of the line that holds index i
LineStart(s, i) ==
    LET b == BackToLineBreak(s, i)
    IN  IF CharAt(s, b) = "\n" \/ CharAt(s, b) = "\r" THEN b + 1 ELSE b

RECURSIVE SkipSeparators(_, _)
SkipSeparators(s, i) ==
    IF i <= Len(s) /\ (IsSpace(CharAt(s, i)) \/ CharAt(s, i) = ",")
    THEN SkipSeparators(s, i + 1) ELSE i

\* extract_single_temperature: [found |-> 1/0 result, val |-> *temp_value]
extract_single_temperature(response, pattern, old) ==
    LET p == StrStr(response, pattern)
    IN  IF p = 0 THEN [found |-> FALSE, val |-> old]
        ELSE
        LET ls == LineStart(response, p)
        IN  IF ~(ls + 6 <= Len(response) /\ SubSeq(response, ls, ls + 6) = "+QTEMP:")
            THEN [found |-> FALSE, val |-> old]
            ELSE
            LET a == SkipSeparators(response, p + Len(pattern))
                b == IF CharAt(response, a) = "\"" THEN a + 1 ELSE a
                c == CharAt(response, b)
            IN  IF c # "" /\ c # "\"" /\ (IsDigit(c) \/ c = "-")
                THEN LET n == StrToL(response, b)
                     IN  IF n.ok THEN [found |-> TRUE, val |-> n.val]
                         ELSE [found |-> FALSE, val |-> old]
                ELSE [found |-> FALSE, val |-> old]

Quoted(prefix) == "\"" \o prefix \o "\""

\* mutant: the upper bound is not tested
InValidRangeNoUpper(t) == t >= TEMP_VALID_MIN

\* mutant: the upper limit of the parser doubled
InValidRangeWide(t) == t >= TEMP_VALID_MIN /\ t <= 2 * TEMP_VALID_MAX

InValidRange(t) == t >= TEMP_VALID_MIN /\ t <= TEMP_VALID_MAX

\* extract_temp_values: ok is the return value, modem/ap/pa the out-parameters,
\* present the labels for which extract_single_temperature returned 1
extract_temp_values(response, modem_prefix, ap_prefix, pa_prefix) ==
    LET zero == [ok |-> FALSE, modem |-> 0, ap |-> 0, pa |-> 0, present |-> {}]
    IN  IF ~Contains(response, "+QTEMP:") THEN zero
        ELSE IF Contains(response, "ERROR") THEN zero
        ELSE IF Contains(response, "OK") /\ ~Contains(response, "modem") THEN zero
        ELSE
        LET m == extract_single_temperature(response, Quoted(modem_prefix), 0)
            a == extract_single_temperature(response, Quoted(ap_prefix), 0)
            p == extract_single_temperature(response, Quoted(pa_prefix), 0)
        IN  [ok      |-> InValidRange(m.val) /\ InValidRange(a.val) /\ InValidRange(p.val),
             modem   |-> m.val,
             ap      |-> a.val,
             pa      |-> p.val,
             present |-> (IF m.found THEN {"modem"} ELSE {})
                         \cup (IF a.found THEN {"ap"} ELSE {})
                         \cup (IF p.found THEN {"pa"} ELSE {})]

(***************************************************************************)
(* Configuration (src/src/config.c)                                        *)
(***************************************************************************)
\* config_set_defaults
config_set_defaults ==
    [serial_port |-> "/dev/ttyUSB2", interval |-> 10, baud_rate |-> 115200,
     log_level |-> "info", temp_modem_prefix |-> "modem-ambient-usr",
     temp_ap_prefix |-> "cpuss-0-usr", temp_pa_prefix |-> "modem-lte-sub6-pa1"]

\* what the UCI store may hold when it is read: the defaults, another device,
\* another baud rate, another poll interval with another log level, another
\* label
UciStores ==
    { config_set_defaults,
      [config_set_defaults EXCEPT !.serial_port = "/dev/ttyUSB3"],
      [config_set_defaults EXCEPT !.baud_rate = 9600],
      [config_set_defaults EXCEPT !.interval = 60, !.log_level = "debug"],
      [config_set_defaults EXCEPT !.temp_ap_prefix = "cpuss-1-usr"] }

\* config_read_uci(&config): the defaults are written into *config first; a
\* failure to allocate the context or to load the package returns -1 after that
config_read_uci(loaded, store) ==
    IF loaded THEN [rc |-> 0, cfg |-> store]
    ELSE [rc |-> -1, cfg |-> config_set_defaults]

\* mutant: the baud rate is left out of the comparison
SerialPortChanged(prev, cur) == prev.serial_port # cur.serial_port

\* daemon.c:254-255, the serial part of the configuration differs
SerialConfigChanged(prev, cur) ==
    prev.serial_port # cur.serial_port \/ prev.baud_rate # cur.baud_rate

(***************************************************************************)
(* Environment: the modem's answers and the sysfs tree                     *)
(***************************************************************************)
\* answers to AT+QTEMP as send_at_command leaves them in the buffer
RespNormal ==
    "+QTEMP:\"modem-ambient-usr\",\"30\"\r\n+QTEMP:\"cpuss-0-usr\",\"45\"\r\n+QTEMP:\"modem-lte-sub6-pa1\",\"20\"\r\n\r\nOK\r\n"
RespHot ==
    "+QTEMP:\"modem-ambient-usr\",\"125\"\r\n+QTEMP:\"cpuss-0-usr\",\"45\"\r\n\r\nOK\r\n"
RespTooHot ==
    "+QTEMP:\"modem-ambient-usr\",\"30\"\r\n+QTEMP:\"cpuss-0-usr\",\"200\"\r\n\r\nOK\r\n"
RespTooCold ==
    "+QTEMP:\"modem-ambient-usr\",\"-41\"\r\n\r\nOK\r\n"
\* a modem in the cold that reports the ambient sensor only
RespCold ==
    "+QTEMP:\"modem-ambient-usr\",\"-30\"\r\n\r\nOK\r\n"
RespError == "\r\n+QTEMP:\r\nERROR\r\n"
RespEcho == "AT+QTEMP\r\r\nOK\r\n"

Responses == {RespNormal, RespHot, RespTooHot, RespTooCold, RespCold, RespError, RespEcho}

\* the sinks written at fixed or cached paths (daemon.c:343-402)
FixedSinks == {"main", "hwmon", "platform", "sensor"}

\* the sysfs tree at daemon start: whether find_quectel_hwmon_path found a
\* device, and the thermal zone directories in readdir order, by declared type
SysfsLayouts ==
    { [hwmon |-> FALSE, zones |-> <<"cpu-thermal">>],
      [hwmon |-> TRUE,  zones |-> <<>>],
      [hwmon |-> TRUE,  zones |-> <<"cpu-thermal", "modem0", "modem_thermal",
                                    "quectel_rm520n">>] }

AllSinks == FixedSinks \cup {"zone"}

\* per tick: the sinks whose access(W_OK) and fopen both succeed; "zone"
\* stands for the temp file of every thermal zone
SinkStates == SUBSET AllSinks

\* the answers and sink states explored under Spec and SpecOutage, where the
\* loop runs for many ticks
LoopResponses == {RespNormal, RespTooHot}
LoopSinkStates == {AllSinks, {}}

(***************************************************************************)
(* Serial transport (src/src/serial.c)                                     *)
(***************************************************************************)
\* the lowest descriptor number not in use, as open(2) returns it
LowestFreeFd(h) ==
    CHOOSE n \in 3..(3 + Cardinality(h)) :
        /\ n \notin {x.fd : x \in h}
        /\ \A k \in 3..(n - 1) : k \in {x.fd : x \in h}

\* init_serial_port: env is "enoent" (open fails), "notty" (tcgetattr or
\* tcsetattr fails, the descriptor is closed again) or "ok"
init_serial_port(h, port, baud, env) ==
    IF env = "ok"
    THEN LET fd == LowestFreeFd(h)
         IN  [fd |-> fd, handles |-> h \cup {[fd |-> fd, port |-> port, baud |-> baud]}]
    ELSE [fd |-> -1, handles |-> h]

\* mutant: the descriptor variable is reset but the descriptor is not closed
CloseFdLeak(h, fd) == h

\* close(fd)
CloseFd(h, fd) == {x \in h : x.fd # fd}

SerialEnvs == {"ok", "enoent", "notty"}

(***************************************************************************)
(* Sink writer (src/src/daemon.c:343-474)                                  *)
(***************************************************************************)
\* daemon.c:433-436
ZoneIsSystem(zone_type) ==
    \/ Contains(zone_type, "cpu") \/ Contains(zone_type, "gpu")
    \/ Contains(zone_type, "soc") \/ Contains(zone_type, "board")

\* mutant: the substring test of the startup scan (daemon.c:182-183)
ZoneIsModemLoose(zone_type) ==
    Contains(zone_type, "modem") \/ Contains(zone_type, "quectel")

\* daemon.c:444-448
ZoneIsModem(zone_type) ==
    zone_type \in {"quectel_rm520n", "modem_thermal", "modem-thermal",
                   "quectel-thermal", "rm520n-thermal"}

\* the readdir loop of daemon.c:409-472: index of the zone at which the loop
\* breaks, 0 if it runs to the end of the directory
RECURSIVE ScanZones(_, _)
ScanZones(zs, i) ==
    IF i > Len(zs) THEN 0
    ELSE IF ZoneIsSystem(zs[i]) THEN ScanZones(zs, i + 1)
    ELSE IF ZoneIsModem(zs[i]) THEN i
    ELSE ScanZones(zs, i + 1)

Targets(zs) == {<<s, 0>> : s \in FixedSinks} \cup {<<"zone", i>> : i \in 1..Len(zs)}

\* mutant: the sink blocks chained with else-if, the first failure ends the fan-out
WriteTargetsChained(sinks_writable, hwmon_ok, zs) ==
    LET z == ScanZones(zs, 1)
    IN  IF "main" \notin sinks_writable THEN {}
        ELSE {<<"main", 0>>} \cup
        (IF ~(hwmon_ok /\ "hwmon" \in sinks_writable) THEN {}
         ELSE {<<"hwmon", 0>>} \cup
         (IF "platform" \notin sinks_writable THEN {}
          ELSE {<<"platform", 0>>} \cup
          (IF "sensor" \notin sinks_writable THEN {}
           ELSE {<<"sensor", 0>>} \cup
           (IF z # 0 /\ "zone" \in sinks_writable THEN {<<"zone", z>>} ELSE {}))))

\* the targets one successful tick writes, given the sinks that are writable
WriteTargets(sinks_writable, hwmon_ok, zs) ==
    LET z == ScanZones(zs, 1)
    IN  (IF "main" \in sinks_writable THEN {<<"main", 0>>} ELSE {})
        \cup (IF hwmon_ok /\ "hwmon" \in sinks_writable THEN {<<"hwmon", 0>>} ELSE {})
        \cup (IF "platform" \in sinks_writable THEN {<<"platform", 0>>} ELSE {})
        \cup (IF "sensor" \in sinks_writable THEN {<<"sensor", 0>>} ELSE {})
        \cup (IF z # 0 /\ "zone" \in sinks_writable THEN {<<"zone", z>>} ELSE {})

(***************************************************************************)
(* Temperature selection (src/src/daemon.c:315-329)                        *)
(***************************************************************************)
BestTemp(t) ==
    LET b1 == IF t.ap > t.modem THEN t.ap ELSE t.modem
    IN  IF t.pa > b1 THEN t.pa ELSE b1

InAbsoluteRange(best) ==
    ~(best < CDiv(TEMP_ABSOLUTE_MIN, 1000) \/ best > CDiv(TEMP_ABSOLUTE_MAX, 1000))

\* mutant: wrong scale factor (micro-degrees)
MilliDegreesScaled(best) == best * 1000000

MilliDegrees(best) == best * 1000

\* daemon.c:313-326 and 475-479: what the loop makes of a response
ResponseOutcome(t) ==
    IF ~t.ok THEN "parse_error"
    ELSE IF ~InAbsoluteRange(BestTemp(t)) THEN "range_error"
    ELSE "ok"

\* mutant: the write block placed after the parse branch instead of inside it
TargetsOnAnyOutcome(o, sinks_writable, hwmon_ok, zs) ==
    WriteTargets(sinks_writable, hwmon_ok, zs)

\* daemon.c:328-474 sits inside the branch of a parsed, in-range response
TargetsOnOutcome(o, sinks_writable, hwmon_ok, zs) ==
    IF o = "ok" THEN WriteTargets(sinks_writable, hwmon_ok, zs) ELSE {}

\* daemon.c:290-293
NextDelay(d) ==
    IF d * 2 > SERIAL_MAX_RECONNECT_DELAY THEN SERIAL_MAX_RECONNECT_DELAY ELSE d * 2

\* mutant: the delay is left as the failed attempts made it
DelayAfterOpenKept(d) == d

\* daemon.c:301, the delay after a successful open
DelayAfterOpen(d) == SERIAL_INITIAL_RECONNECT_DELAY

\* daemon.c:285
MayRetry(attempts) == attempts < SERIAL_MAX_RECONNECT_ATTEMPTS

\* mutant: ">=" for ">"
TooManyAtFailuresEarly(attempts) == attempts >= AT_FAILURE_LIMIT

\* daemon.c:486, evaluated on the incremented counter
TooManyAtFailures(attempts) == attempts > AT_FAILURE_LIMIT

\* mutant: the counter advances by two
CountTwice(stats, field) == [stats EXCEPT ![field] = @ + 2]

\* daemon.c:213, 282, 322, 339, 477, 482: g_stats.<field>++
Count(stats, field) == [stats EXCEPT ![field] = @ + 1]

\* mutant: a response that fails parsing is counted as a failed command
CountOutcomeAsCommandError(stats, o) ==
    IF o = "ok" THEN Count(stats, "successful_reads")
    ELSE Count(stats, "at_command_errors")

\* mutant: a response that fails parsing is not counted
CountOutcomeParseUncounted(stats, o) ==
    IF o = "ok" THEN Count(stats, "successful_reads") ELSE stats

\* daemon.c:322, 339, 477: the counter a received response advances
CountOutcome(stats, o) ==
    IF o = "ok" THEN Count(stats, "successful_reads")
    ELSE Count(stats, "parse_errors")

(***************************************************************************)
(* system.c: the daemon lock.  The files are PID_FILE, holding a process   *)
(* id (0: no file), and LOCK_FILE, naming an inode (0: no file); inodes    *)
(* counts the inodes created so far; flock holds <<inode, pid>> for every  *)
(* exclusive lock held through a descriptor of process pid.  A descriptor  *)
(* on LOCK_FILE is named by the inode it refers to.                        *)
(***************************************************************************)
Pids == 1..NProcs

\* the daemon whose loop is followed step by step
Self == 1

NoFiles == [pid_file |-> 0, lock_file |-> 0, inodes |-> 0, flock |-> {}]

\* system.c:52-76; alive is the set of processes kill(pid, 0) finds
check_daemon_running(fs, alive) ==
    IF fs.pid_file = 0 THEN [rc |-> 0, fs |-> fs]
    ELSE IF fs.pid_file \in alive THEN [rc |-> 1, fs |-> fs]
    ELSE [rc |-> 0, fs |-> [fs EXCEPT !.pid_file = 0]]

\* system.c:90-114; env is the result of open(LOCK_FILE, O_CREAT | O_RDWR)
acquire_daemon_lock(fs, pid, env) ==
    IF env # "ok" THEN [rc |-> -1, fd |-> -1, fs |-> fs]
    ELSE LET created == fs.lock_file = 0
             ino     == IF created THEN fs.inodes + 1 ELSE fs.lock_file
             opened  == [fs EXCEPT !.lock_file = ino,
                                   !.inodes = IF created THEN @ + 1 ELSE @]
         IN  IF \E l \in fs.flock : l[1] = ino
             THEN [rc |-> -1, fd |-> -1, fs |-> opened]
             ELSE [rc |-> 0, fd |-> ino,
                   fs |-> [opened EXCEPT !.flock = @ \cup {<<ino, pid>>},
                                         !.pid_file = pid]]

\* mutant: the lock is dropped, the two files are left behind
release_daemon_lock_files_kept(fs, fd, pid) ==
    [fd |-> -1, fs |-> [fs EXCEPT !.flock = IF fd >= 0 THEN @ \ {<<fd, pid>>} ELSE @]]

\* system.c:125-138
release_daemon_lock(fs, fd, pid) ==
    [fd |-> -1,
     fs |-> [fs EXCEPT !.flock = IF fd >= 0 THEN @ \ {<<fd, pid>>} ELSE @,
                       !.pid_file = 0,
                       !.lock_file = 0]]

(***************************************************************************)
(* system.c: hwmon discovery.  /sys/class/hwmon is [exists, entries]:      *)
(* entries in the order readdir yields them after "." and "..", each with  *)
(* its directory name, the content of its name file ("": the file cannot   *)
(* be opened or is empty) and whether its temp1_input is readable.         *)
(***************************************************************************)
\* devices of the hwmon class in one state of the model
MaxHwmon == 2

HwmonExactNames == {"quectel_rm520n_thermal", "quectel_rm520n_hwmon"}
HwmonPartialName == "quectel_rm520n"

\* the name files of the model: the two exact names (kmod/hwmon.c:445,
\* system.c:275), the sensor driver's name, which only contains
\* "quectel_rm520n", a foreign device and an unreadable file
HwmonNameFiles ==
    {"quectel_rm520n_thermal\n", "quectel_rm520n_hwmon\n", "quectel_rm520n_temp\n",
     "cpu_thermal\n", ""}

HwmonDirName(n) == "hwmon" \o ToString(n)

HwmonEntries ==
    [d_name : {HwmonDirName(n) : n \in 0..(MaxHwmon - 1)},
     name : HwmonNameFiles,
     temp1_input : BOOLEAN]

EmptyHwmonClass == [exists |-> TRUE, entries |-> <<>>]

\* readdir: "." and ".." come with every directory
ReadDir(class) ==
    <<[d_name |-> ".", name |-> "", temp1_input |-> FALSE],
      [d_name |-> "..", name |-> "", temp1_input |-> FALSE]>> \o class.entries

\* access("/sys/class/hwmon/<d_name>/temp1_input", R_OK) == 0
AccessTemp1Input(class, d_name) ==
    \E i \in 1..Len(class.entries) :
        class.entries[i].d_name = d_name /\ class.entries[i].temp1_input

\* common.h:114, STRIP_NEWLINE: the text is cut at its first newline
StripNewline(s) ==
    LET nl == StrStr(s, "\n")
    IN  IF nl = 0 THEN s ELSE SubSeq(s, 1, nl - 1)

\* system.c:170-182
extract_hwmon_number(name) ==
    IF Len(name) < 5 \/ SubSeq(name, 1, 5) # "hwmon" THEN -1
    ELSE LET neg   == CharAt(name, 6) = "-"
             first == IF neg THEN 7 ELSE 6
             run   == DigitRun(name, first, 0)
             conv  == run[2] > first
             num   == IF ~conv THEN 0 ELSE IF neg THEN -run[1] ELSE run[1]
             end   == IF conv THEN run[2] ELSE 6
         IN  IF end <= Len(name) \/ num < 0 \/ num > 999 THEN -1 ELSE num

\* system.c:274-282 without the preference: any entry that contains
\* "quectel_rm520n" counts as an exact match and ends the scan
IsExactMatchLoose(dev_name) == Contains(dev_name, HwmonPartialName)

\* system.c:274-275
IsExactMatch(dev_name) == dev_name \in HwmonExactNames

\* system.c:236-286, the readdir loop from entry i on
RECURSIVE ScanHwmon(_, _, _, _)
ScanHwmon(entries, i, exact_match, fallback_match) ==
    IF i > Len(entries) THEN [exact_match |-> exact_match, fallback_match |-> fallback_match]
    ELSE LET entry    == entries[i]
             dev_name == StripNewline(entry.name)
             num      == extract_hwmon_number(entry.d_name)
         IN  IF \/ entry.d_name \in {".", ".."}
                \/ entry.name = ""
                \/ ~entry.temp1_input
                \/ num < 0
             THEN ScanHwmon(entries, i + 1, exact_match, fallback_match)
             ELSE IF IsExactMatch(dev_name)
             THEN [exact_match |-> num, fallback_match |-> fallback_match]
             ELSE IF Contains(dev_name, HwmonPartialName) /\ fallback_match < 0
             THEN ScanHwmon(entries, i + 1, exact_match, num)
             ELSE ScanHwmon(entries, i + 1, exact_match, fallback_match)

FreshHwmonCache == [device_num |-> -1, cache_valid |-> 0]

\* system.c:208-301: [ret, cache |-> the cache after the call, scanned |->
\* the directory was read]
find_quectel_hwmon_device(use_cache, cache, class) ==
    LET consult == use_cache # 0 /\ cache.cache_valid # 0
        hit     == /\ consult
                   /\ cache.device_num >= 0
                   /\ AccessTemp1Input(class, HwmonDirName(cache.device_num))
        dropped == IF consult THEN [cache EXCEPT !.cache_valid = 0] ELSE cache
    IN  IF hit THEN [ret |-> cache.device_num, cache |-> cache, scanned |-> FALSE]
        ELSE IF ~class.exists THEN [ret |-> -1, cache |-> dropped, scanned |-> FALSE]
        ELSE LET s      == ScanHwmon(ReadDir(class), 1, -1, -1)
                 result == IF s.exact_match >= 0 THEN s.exact_match ELSE s.fallback_match
             IN  [ret |-> result,
                  cache |-> [device_num |-> result, cache_valid |-> 1],
                  scanned |-> TRUE]

(***************************************************************************)
(* Kernel module: the thresholds of kmod/main.c and of the hwmon device     *)
(* (kmod/hwmon.c), in millidegrees                                         *)
(***************************************************************************)
DEFAULT_TEMP_MIN == -30000
DEFAULT_TEMP_MAX == 75000
DEFAULT_TEMP_CRIT == 85000
EINVAL == 22
ERANGE == 34

\* kstrtoint(s, 10, &val): an optional sign, decimal digits, an optional
\* newline, then the end of the text; the value has to fit an int
kstrtoint(s) ==
    LET signed == CharAt(s, 1) \in {"-", "+"}
        first  == IF signed THEN 2 ELSE 1
        run    == DigitRun(s, first, 0)
        val    == IF CharAt(s, 1) = "-" THEN -run[1] ELSE run[1]
        end    == IF CharAt(s, run[2]) = "\n" THEN run[2] + 1 ELSE run[2]
    IN  IF run[2] = first \/ end <= Len(s) THEN [rc |-> -EINVAL, val |-> 0]
        ELSE IF val < -INT_MAX - 1 \/ val > INT_MAX THEN [rc |-> -ERANGE, val |-> 0]
        ELSE [rc |-> 0, val |-> val]

\* kmod/main.c:242-278: [rc, temp_min |-> the stored value after the write]
temp_min_store(buf, cur_min, cur_max) ==
    LET k == kstrtoint(buf)
    IN  IF Len(buf) = 0 \/ k.rc # 0 THEN [rc |-> -EINVAL, temp_min |-> cur_min]
        ELSE IF k.val < TEMP_ABSOLUTE_MIN THEN [rc |-> -EINVAL, temp_min |-> cur_min]
        ELSE IF k.val > cur_max THEN [rc |-> -EINVAL, temp_min |-> cur_min]
        ELSE [rc |-> Len(buf), temp_min |-> k.val]

\* kmod/main.c:292-328: [rc, temp_max |-> the stored value after the write]
temp_max_store(buf, cur_min, cur_max) ==
    LET k == kstrtoint(buf)
    IN  IF Len(buf) = 0 \/ k.rc # 0 THEN [rc |-> -EINVAL, temp_max |-> cur_max]
        ELSE IF k.val > TEMP_ABSOLUTE_MAX THEN [rc |-> -EINVAL, temp_max |-> cur_max]
        ELSE IF k.val < cur_min THEN [rc |-> -EINVAL, temp_max |-> cur_max]
        ELSE [rc |-> Len(buf), temp_max |-> k.val]

\* kmod/main.c:342-378: [rc, temp_crit |-> the stored value after the write]
temp_crit_store(buf, cur_max, cur_crit) ==
    LET k == kstrtoint(buf)
    IN  IF Len(buf) = 0 \/ k.rc # 0 THEN [rc |-> -EINVAL, temp_crit |-> cur_crit]
        ELSE IF k.val > TEMP_ABSOLUTE_MAX THEN [rc |-> -EINVAL, temp_crit |-> cur_crit]
        ELSE IF k.val < cur_max THEN [rc |-> -EINVAL, temp_crit |-> cur_crit]
        ELSE [rc |-> Len(buf), temp_crit |-> k.val]

\* threads writing the attributes of the hwmon device at the same time
NWriters == 2
Writers == 1..NWriters

(***************************************************************************)
(* State                                                                   *)
(***************************************************************************)
VARIABLES
    pc,                         \* position of daemon_mode in its loop
    shutdown_flag,              \* *shutdown_flag, set by signal_handler
    g_serial_fd,
    serial_reconnect_attempts,
    reconnect_delay,
    g_stats,
    config,                     \* the global config_t
    loop_config,                \* the copy taken at the top of the iteration
    config_checked,             \* last_config_check # 0
    hwmon_available,
    ret,                        \* return value of daemon_mode, -1 while running
    handles,                    \* descriptors the process holds open on a tty
    zones,                      \* thermal zone directory
    sinks,                      \* content of every sink file
    outcome,                    \* what the current iteration has done so far
    written,                    \* the writes of the current iteration
    writable,                   \* the sinks that were writable when it wrote
    parsed,                     \* result of extract_temp_values in this iteration
    failSleep,                  \* the sleep that followed the last failed open
    openFails,                  \* failed opens since start or the last successful open
    atFails,                    \* failed queries since the handle was opened
    reloads,                    \* reloads that fell due so far
    cycleFails,                 \* failed opens since start or the last successful read
    call,                       \* a library function called on its own: input and result
    daemon_lock_fd,             \* daemon_lock_fd of every process, -1 when not open
    lockfs,                     \* PID_FILE, LOCK_FILE and the locks held on them
    procs,                      \* where every process stands as a daemon
    stats_logged,               \* the iteration of the last statistics line, 0: none
    healthy,                    \* the device opens and the modem answers from now on
    g_hwmon_device_num,
    g_hwmon_cache_valid,
    hwmon_class,                \* /sys/class/hwmon
    temp_min,                   \* the thresholds of kmod/main.c
    temp_max,
    temp_crit,
    data,                       \* quectel_hwmon_data of the hwmon device
    writers                     \* the store call every writing thread is in

vars == <<pc, shutdown_flag, g_serial_fd, serial_reconnect_attempts, reconnect_delay,
          g_stats, config, loop_config, config_checked, hwmon_available, ret,
          handles, zones, sinks, outcome, written, writable, parsed, failSleep,
          openFails, atFails, reloads, cycleFails, call, daemon_lock_fd, lockfs, procs,
          stats_logged, healthy, g_hwmon_device_num, g_hwmon_cache_valid, hwmon_class,
          temp_min, temp_max, temp_crit, data, writers>>

lockVars == <<daemon_lock_fd, lockfs, procs>>

discoveryVars == <<g_hwmon_device_num, g_hwmon_cache_valid, hwmon_class>>

kmodVars == <<temp_min, temp_max, temp_crit, data, writers>>

progVars == <<g_serial_fd, serial_reconnect_attempts, reconnect_delay, g_stats, config,
              loop_config, config_checked, hwmon_available, ret, handles, zones, sinks>>

NoParse == [ok |-> FALSE, modem |-> 0, ap |-> 0, pa |-> 0, present |-> {}]
NoSleep == [n |-> 0, secs |-> 0]
NoCall == [fn |-> "none", response |-> "", labels |-> <<>>, done |-> FALSE]

\* daemon.c:99-110 done: the daemon holds the lock, no other process runs
LockHeldBySelf ==
    /\ lockfs = acquire_daemon_lock(NoFiles, Self, "ok").fs
    /\ daemon_lock_fd = [p \in Pids |-> IF p = Self THEN lockfs.lock_file ELSE -1]
    /\ procs = [p \in Pids |-> IF p = Self THEN "loop" ELSE "idle"]

\* no store call in progress
NoStore == [fn |-> "none", buf |-> "", val |-> 0, pc |-> "idle", rc |-> 0]

\* kmod/main.c:32-34, kmod/hwmon.c:424-433: the module and its hwmon device
\* after loading, nothing written yet
ModuleLoaded ==
    /\ temp_min = DEFAULT_TEMP_MIN
    /\ temp_max = DEFAULT_TEMP_MAX
    /\ temp_crit = DEFAULT_TEMP_CRIT
    /\ data = [temp_min |-> temp_min, temp_max |-> temp_max, temp_crit |-> temp_crit,
               lock |-> 0]
    /\ writers = [t \in Writers |-> NoStore]

\* the hwmon class of a system whose module is loaded
ModemHwmonClass ==
    [exists |-> TRUE,
     entries |-> <<[d_name |-> HwmonDirName(0), name |-> "quectel_rm520n_thermal\n",
                    temp1_input |-> TRUE]>>]

Init ==
    /\ pc = "check"
    /\ LockHeldBySelf
    /\ ModuleLoaded
    /\ stats_logged = 0
    /\ healthy = FALSE
    /\ shutdown_flag = FALSE
    /\ g_serial_fd = -1
    /\ serial_reconnect_attempts = 0
    /\ reconnect_delay = SERIAL_INITIAL_RECONNECT_DELAY
    /\ g_stats = [serial_errors |-> 0, at_command_errors |-> 0, parse_errors |-> 0,
                  successful_reads |-> 0, total_iterations |-> 0]
    /\ config \in UciStores
    /\ loop_config = config
    /\ config_checked = FALSE
    /\ \E l \in SysfsLayouts :
          /\ hwmon_class = IF l.hwmon THEN ModemHwmonClass ELSE EmptyHwmonClass
          /\ zones = l.zones
    /\ LET found == find_quectel_hwmon_device(1, FreshHwmonCache, hwmon_class)
       IN  /\ hwmon_available = (found.ret >= 0)
           /\ g_hwmon_device_num = found.cache.device_num
           /\ g_hwmon_cache_valid = found.cache.cache_valid
    /\ ret = -1
    /\ handles = {}
    /\ sinks = [t \in Targets(zones) |-> <<>>]
    /\ outcome = "none"
    /\ written = {}
    /\ writable = {}
    /\ parsed = NoParse
    /\ failSleep = NoSleep
    /\ openFails = 0
    /\ atFails = 0
    /\ reloads = 0
    /\ cycleFails = 0
    /\ call = NoCall

\* extract_temp_values as daemon.c:313-314 calls it, tabulated over the answers
\* and the configurations of the model
ParseTable ==
    [q \in Responses |->
        [c \in UciStores |->
            extract_temp_values(q, c.temp_modem_prefix, c.temp_ap_prefix,
                                c.temp_pa_prefix)]]

(***************************************************************************)
(* daemon_mode, one action per stretch of its loop body                    *)
(***************************************************************************)
\* mutant: the loop condition inverted
LoopContinuesInverted(flag) == flag

\* daemon.c:211, the while condition
LoopContinues(flag) == ~flag

\* daemon.c:211-217: the loop condition holds, the iteration starts
LoopEnter(limit) ==
    /\ pc = "check"
    /\ LoopContinues(shutdown_flag)
    /\ g_stats.total_iterations < limit
    /\ g_stats' = Count(g_stats, "total_iterations")
    /\ loop_config' = config
    /\ pc' = "reload"
    /\ outcome' = "none"
    /\ written' = {}
    /\ writable' = {}
    /\ parsed' = NoParse
    /\ failSleep' = NoSleep
    /\ UNCHANGED <<shutdown_flag, g_serial_fd, serial_reconnect_attempts, reconnect_delay,
                   config, config_checked, hwmon_available, ret, handles, zones, sinks,
                   openFails, atFails, reloads, cycleFails, call, stats_logged, healthy>>
    /\ UNCHANGED <<lockVars, discoveryVars, kmodVars>>

LoopCheck == LoopEnter(MaxIter)

\* daemon.c:211, 510-518: the loop condition fails, cleanup and return 0
LoopExit ==
    /\ pc = "check"
    /\ ~LoopContinues(shutdown_flag)
    /\ handles' = IF g_serial_fd >= 0 THEN CloseFd(handles, g_serial_fd) ELSE handles
    /\ g_serial_fd' = -1
    /\ LET r == release_daemon_lock(lockfs, daemon_lock_fd[Self], Self)
       IN  /\ lockfs' = r.fs
           /\ daemon_lock_fd' = [daemon_lock_fd EXCEPT ![Self] = r.fd]
    /\ procs' = [procs EXCEPT ![Self] = "returned"]
    /\ ret' = 0
    /\ pc' = "done"
    /\ UNCHANGED <<shutdown_flag, serial_reconnect_attempts, reconnect_delay, g_stats,
                   config, loop_config, config_checked, hwmon_available, zones, sinks,
                   outcome, written, writable, parsed, failSleep, openFails, atFails,
                   reloads, cycleFails, call, stats_logged, healthy, discoveryVars,
                   kmodVars>>

\* daemon.c:219-278: the periodic reload of the UCI configuration.  due is
\* "current_time - last_config_check >= CONFIG_CHECK_INTERVAL", which holds on
\* the first iteration because last_config_check starts at 0.
Reload ==
    /\ pc = "reload"
    /\ \E due \in BOOLEAN, loaded \in BOOLEAN, store \in UciStores :
        /\ (~config_checked) => due
        /\ due => reloads < MaxReloads
        /\ reloads' = IF due THEN reloads + 1 ELSE reloads
        /\ IF ~due
           THEN UNCHANGED <<config, loop_config, config_checked, g_serial_fd, handles,
                            outcome>>
           ELSE LET r       == config_read_uci(loaded, store)
                    changed == r.rc = 0 /\ r.cfg # config
                    reopen  == changed /\ SerialConfigChanged(config, r.cfg)
                               /\ g_serial_fd >= 0
                IN  /\ config' = r.cfg
                    /\ loop_config' = IF changed THEN r.cfg ELSE loop_config
                    /\ handles' = IF reopen THEN CloseFd(handles, g_serial_fd) ELSE handles
                    /\ g_serial_fd' = IF reopen THEN -1 ELSE g_serial_fd
                    /\ config_checked' = TRUE
                    /\ outcome' = IF r.rc = 0 THEN "reloaded" ELSE "reload_failed"
    /\ pc' = "serial"
    /\ UNCHANGED <<shutdown_flag, serial_reconnect_attempts, reconnect_delay, g_stats,
                   hwmon_available, ret, zones, sinks, written, writable, parsed,
                   failSleep, openFails, atFails, cycleFails, call, stats_logged, healthy>>
    /\ UNCHANGED <<lockVars, discoveryVars, kmodVars>>

\* daemon.c:280-303: open the serial port if it is not open
SerialStep(envs) ==
    /\ pc = "serial"
    /\ IF g_serial_fd >= 0
       THEN /\ pc' = "read"
            /\ outcome' = "connected"
            /\ UNCHANGED <<g_serial_fd, handles, serial_reconnect_attempts, reconnect_delay,
                           g_stats, failSleep, openFails, atFails, cycleFails>>
       ELSE \E env \in envs :
            LET r == init_serial_port(handles, loop_config.serial_port,
                                      loop_config.baud_rate, env)
            IN  /\ g_serial_fd' = r.fd
                /\ handles' = r.handles
                /\ IF r.fd < 0
                   THEN /\ g_stats' = Count(g_stats, "serial_errors")
                        /\ openFails' = openFails + 1
                        /\ cycleFails' = cycleFails + 1
                        /\ atFails' = atFails
                        /\ IF MayRetry(serial_reconnect_attempts)
                           THEN /\ serial_reconnect_attempts' = serial_reconnect_attempts + 1
                                /\ failSleep' = [n |-> openFails + 1, secs |-> reconnect_delay]
                                /\ reconnect_delay' = NextDelay(reconnect_delay)
                                /\ outcome' = "backoff"
                                /\ pc' = "check"
                           ELSE /\ outcome' = "exhausted"
                                /\ pc' = "read"
                                /\ UNCHANGED <<serial_reconnect_attempts, reconnect_delay,
                                               failSleep>>
                   ELSE /\ serial_reconnect_attempts' = 0
                        /\ reconnect_delay' = DelayAfterOpen(reconnect_delay)
                        /\ openFails' = 0
                        /\ atFails' = 0
                        /\ cycleFails' = cycleFails
                        /\ outcome' = "opened"
                        /\ pc' = "read"
                        /\ UNCHANGED <<g_stats, failSleep>>
    /\ UNCHANGED <<shutdown_flag, config, loop_config, config_checked, hwmon_available, ret,
                   zones, sinks, written, writable, parsed, reloads, call, stats_logged,
                   healthy>>
    /\ UNCHANGED <<lockVars, discoveryVars, kmodVars>>

SerialInit == SerialStep(SerialEnvs)

\* daemon.c:305-493: query the modem, parse, select and write.  An exchange
\* gives an answer, "fail" (send_at_command returned 0 or -1) or "silent" (the
\* modem sends nothing and read() of serial.c:162 does not return)
ReadStep(responses, sink_states) ==
    /\ pc = "read"
    /\ IF g_serial_fd < 0
       THEN /\ pc' = "stats"
            /\ UNCHANGED <<g_serial_fd, handles, serial_reconnect_attempts, g_stats, sinks,
                           outcome, written, writable, parsed, atFails, cycleFails>>
       ELSE \E q \in responses, w \in sink_states :
            IF q = "silent"
            THEN /\ pc' = "blocked"
                 /\ UNCHANGED <<g_serial_fd, handles, serial_reconnect_attempts, g_stats,
                                sinks, outcome, written, writable, parsed, atFails,
                                cycleFails>>
            ELSE IF q = "fail"
            THEN \* send_at_command returned 0 or -1
                 LET n == serial_reconnect_attempts + 1
                 IN  /\ g_stats' = Count(g_stats, "at_command_errors")
                     /\ atFails' = atFails + 1
                     /\ serial_reconnect_attempts' = IF TooManyAtFailures(n) THEN 0 ELSE n
                     /\ handles' = IF TooManyAtFailures(n)
                                   THEN CloseFd(handles, g_serial_fd) ELSE handles
                     /\ g_serial_fd' = IF TooManyAtFailures(n) THEN -1 ELSE g_serial_fd
                     /\ outcome' = "at_error"
                     /\ pc' = "stats"
                     /\ UNCHANGED <<sinks, written, writable, parsed, cycleFails>>
            ELSE LET t    == ParseTable[q][loop_config]
                     o    == ResponseOutcome(t)
                     mdeg == MilliDegrees(BestTemp(t))
                     tg   == TargetsOnOutcome(o, w, hwmon_available, zones)
                 IN  /\ parsed' = t
                     /\ g_stats' = CountOutcome(g_stats, o)
                     /\ sinks' = [x \in DOMAIN sinks |->
                                     IF x \in tg THEN <<mdeg>> ELSE sinks[x]]
                     /\ written' = {[sink |-> x, val |-> mdeg] : x \in tg}
                     /\ writable' = IF o = "ok" THEN w ELSE {}
                     /\ outcome' = o
                     /\ cycleFails' = IF o = "ok" THEN 0 ELSE cycleFails
                     \* daemon.c:325, the out-of-range branch ends in "continue"
                     /\ pc' = IF o = "range_error" THEN "check" ELSE "stats"
                     /\ UNCHANGED <<g_serial_fd, handles, serial_reconnect_attempts, atFails>>
    /\ UNCHANGED <<shutdown_flag, reconnect_delay, config, loop_config, config_checked,
                   hwmon_available, ret, zones, failSleep, openFails, reloads, call,
                   stats_logged, healthy>>
    /\ UNCHANGED <<lockVars, discoveryVars, kmodVars>>

ReadTemp == ReadStep({"fail"} \cup LoopResponses, LoopSinkStates)

\* daemon.c:496
StatsDue(iterations) == iterations % STATS_LOG_INTERVAL = 0

\* daemon.c:495-507: periodic statistics line, then sleep(config.interval)
StatsSleep ==
    /\ pc = "stats"
    /\ failSleep' = IF outcome = "exhausted"
                    THEN [n |-> openFails, secs |-> config.interval] ELSE failSleep
    /\ stats_logged' = IF StatsDue(g_stats.total_iterations)
                       THEN g_stats.total_iterations ELSE stats_logged
    /\ pc' = "check"
    /\ UNCHANGED <<shutdown_flag, outcome, written, writable, parsed, openFails, atFails,
                   reloads, cycleFails, call, healthy>>
    /\ UNCHANGED <<lockVars, discoveryVars, kmodVars>>
    /\ UNCHANGED progVars

\* signal_handler: SIGTERM or SIGINT arrives
Signal ==
    /\ pc # "done"
    /\ ~shutdown_flag
    /\ shutdown_flag' = TRUE
    /\ UNCHANGED <<pc, outcome, written, writable, parsed, failSleep, openFails, atFails,
                   reloads, cycleFails, call, stats_logged, healthy>>
    /\ UNCHANGED <<lockVars, discoveryVars, kmodVars>>
    /\ UNCHANGED progVars

Next == LoopCheck \/ LoopExit \/ Reload \/ SerialInit \/ ReadTemp \/ StatsSleep \/ Signal

Spec == Init /\ [][Next]_vars

\* The same daemon on a system whose serial device cannot be opened
OutageLoopCheck == LoopEnter(MaxOutageIter)

SerialInitUnavailable == SerialStep({"enoent", "notty"})

NextOutage ==
    OutageLoopCheck \/ LoopExit \/ Reload \/ SerialInitUnavailable \/ ReadTemp
    \/ StatsSleep \/ Signal

SpecOutage == Init /\ [][NextOutage]_vars

\* The same daemon over few ticks, with every answer of the modem and every
\* combination of writable sinks
TickLoopCheck == LoopEnter(MaxTickIter)

ReadTempAnySinks == ReadStep({"fail"} \cup Responses, SinkStates)

NextTick ==
    TickLoopCheck \/ LoopExit \/ Reload \/ SerialInit \/ ReadTempAnySinks
    \/ StatsSleep \/ Signal

SpecTick == Init /\ [][NextTick]_vars

\* The same daemon over a long run: the device opens and the modem answers
\* during the first StatsHealthyTicks iterations, after that opens and
\* commands may fail
StatsLoopCheck == LoopEnter(MaxStatsIter)

SerialInitLongRun ==
    SerialStep(IF g_stats.total_iterations <= StatsHealthyTicks
               THEN {"ok"} ELSE SerialEnvs)

ReadTempLongRun ==
    ReadStep(IF g_stats.total_iterations <= StatsHealthyTicks
             THEN {RespNormal} ELSE {"fail", RespNormal},
             {AllSinks})

NextStats ==
    StatsLoopCheck \/ LoopExit \/ Reload \/ SerialInitLongRun \/ ReadTempLongRun
    \/ StatsSleep \/ Signal

SpecStats == Init /\ [][NextStats]_vars

\* The same daemon on a device that recovers.  Until it does, an open may
\* fail and the modem may answer, fail or stay silent; from then on (healthy)
\* every open succeeds and every command is answered with a valid report.
\* The daemon's own steps are taken whenever they can be; signals and the
\* recovery come when they come.
RecoveryLoopCheck == LoopEnter(MaxRecoveryIter)

SerialInitRecovering == SerialStep(IF healthy THEN {"ok"} ELSE SerialEnvs)

ReadTempRecovering ==
    ReadStep(IF healthy THEN {RespNormal} ELSE {"fail", "silent", RespNormal, RespTooHot},
             {AllSinks})

Recover ==
    /\ ~healthy
    /\ pc # "done"
    /\ healthy' = TRUE
    /\ UNCHANGED <<pc, shutdown_flag, outcome, written, writable, parsed, failSleep,
                   openFails, atFails, reloads, cycleFails, call, stats_logged>>
    /\ UNCHANGED <<lockVars, discoveryVars, kmodVars>>
    /\ UNCHANGED progVars

DaemonStepRecovering ==
    RecoveryLoopCheck \/ LoopExit \/ Reload \/ SerialInitRecovering
    \/ ReadTempRecovering \/ StatsSleep

NextRecovery == DaemonStepRecovering \/ Signal \/ Recover

SpecRecovery == Init /\ [][NextRecovery]_vars /\ WF_vars(DaemonStepRecovering)

(***************************************************************************)
(* The response parser called on its own: extract_temp_values with three   *)
(* configured labels, extract_single_temperature with one quoted pattern   *)
(***************************************************************************)
\* only the processor sensor is reported
RespApOnly == "+QTEMP:\"cpuss-0-usr\",\"45\"\r\n\r\nOK\r\n"
\* a sensor that is not configured
RespOtherSensor == "+QTEMP:\"modem-skin-usr\",\"33\"\r\n\r\nOK\r\n"
\* the label is echoed on a line of its own before the line that reports it
RespShadowed ==
    "AT+QTEMP=\"modem-ambient-usr\"\r\n+QTEMP:\"modem-ambient-usr\",\"30\"\r\n\r\nOK\r\n"
\* the label occurs again on a later line that is no report
RespTrailing ==
    "+QTEMP:\"modem-ambient-usr\",\"30\"\r\nNOTE \"modem-ambient-usr\",\"99\"\r\n\r\nOK\r\n"
\* the label occurs only on a line that is no report
RespIncidental ==
    "+QTEMP:\"cpuss-0-usr\",\"45\"\r\nNOTE \"modem-ambient-usr\",\"99\"\r\n\r\nOK\r\n"
RespNoValue == "+QTEMP:\"modem-ambient-usr\",\"\"\r\n\r\nOK\r\n"
\* a report cut off before the acknowledgment, none of the default labels
RespBare == "+QTEMP:\"aoss-0-usr\",\"33\"\r\n"
RespUnquoted == "+QTEMP: \"modem-ambient-usr\", 30\r\n\r\nOK\r\n"
RespBoundary ==
    "+QTEMP:\"modem-ambient-usr\",\"-40\"\r\n+QTEMP:\"cpuss-0-usr\",\"120\"\r\n\r\nOK\r\n"
RespAboveMax == "+QTEMP:\"modem-ambient-usr\",\"126\"\r\n\r\nOK\r\n"
RespErrorAfterData ==
    "+QTEMP:\"modem-ambient-usr\",\"30\"\r\n\r\nERROR\r\n"
RespSdr ==
    "+QTEMP:\"sdr0-pa0\",\"41\"\r\n+QTEMP:\"aoss-0-usr\",\"38\"\r\n\r\nOK\r\n"

ParserResponses ==
    Responses \cup
    { RespApOnly, RespOtherSensor, RespShadowed, RespTrailing, RespIncidental,
      RespNoValue, RespBare, RespUnquoted, RespBoundary, RespAboveMax,
      RespErrorAfterData, RespSdr, "" }

\* the three labels as the UCI options temp_modem_prefix, temp_ap_prefix and
\* temp_pa_prefix may set them (config.c:235-250)
LabelConfigs ==
    { <<config_set_defaults.temp_modem_prefix, config_set_defaults.temp_ap_prefix,
        config_set_defaults.temp_pa_prefix>>,
      <<"modem-skin-usr", "cpuss-1-usr", "modem-lte-sub6-pa2">>,
      <<"sdr0-pa0", "cpuss-0-usr", "aoss-0-usr">> }

ParseCalls ==
    { [fn |-> "extract_temp_values", response |-> r, labels |-> l, done |-> FALSE] :
        r \in ParserResponses, l \in LabelConfigs }
    \cup
    { [fn |-> "extract_single_temperature", response |-> r, labels |-> <<l>>,
       done |-> FALSE] :
        r \in ParserResponses, l \in {c[1] : c \in LabelConfigs} }

\* no daemon has been started
NoDaemon ==
    /\ lockfs = NoFiles
    /\ daemon_lock_fd = [p \in Pids |-> -1]
    /\ procs = [p \in Pids |-> "idle"]

\* the process before a function is called on its own
CallState(calls) ==
    /\ pc = "call"
    /\ call \in calls
    /\ shutdown_flag = FALSE
    /\ g_serial_fd = -1
    /\ serial_reconnect_attempts = 0
    /\ reconnect_delay = SERIAL_INITIAL_RECONNECT_DELAY
    /\ g_stats = [serial_errors |-> 0, at_command_errors |-> 0, parse_errors |-> 0,
                  successful_reads |-> 0, total_iterations |-> 0]
    /\ config = config_set_defaults
    /\ loop_config = config
    /\ config_checked = FALSE
    /\ hwmon_available = FALSE
    /\ zones = <<>>
    /\ ret = -1
    /\ handles = {}
    /\ sinks = [t \in Targets(zones) |-> <<>>]
    /\ outcome = "none"
    /\ written = {}
    /\ writable = {}
    /\ parsed = NoParse
    /\ failSleep = NoSleep
    /\ openFails = 0
    /\ atFails = 0
    /\ reloads = 0
    /\ cycleFails = 0
    /\ stats_logged = 0
    /\ healthy = FALSE
    /\ ModuleLoaded
    /\ hwmon_class = EmptyHwmonClass
    /\ g_hwmon_device_num = FreshHwmonCache.device_num
    /\ g_hwmon_cache_valid = FreshHwmonCache.cache_valid

CallInit(calls) == CallState(calls) /\ NoDaemon

InitParse == CallInit(ParseCalls)

CallFrame == <<shutdown_flag, outcome, written, writable, failSleep, openFails, atFails,
               reloads, cycleFails, daemon_lock_fd, lockfs, procs, stats_logged, healthy,
               discoveryVars, kmodVars>>

\* extract_temp_values(response, &modem, &ap, &pa, labels...)
CallExtractTempValues ==
    /\ pc = "call"
    /\ call.fn = "extract_temp_values"
    /\ parsed' = extract_temp_values(call.response, call.labels[1], call.labels[2],
                                     call.labels[3])
    /\ call' = [call EXCEPT !.done = TRUE]
    /\ pc' = "returned"
    /\ UNCHANGED CallFrame
    /\ UNCHANGED progVars

\* extract_single_temperature(response, "\"label\"", strlen, &value) with
\* value = 0 before the call; the result is kept in the modem field
CallExtractSingle ==
    /\ pc = "call"
    /\ call.fn = "extract_single_temperature"
    /\ LET r == extract_single_temperature(call.response, Quoted(call.labels[1]), 0)
       IN  parsed' = [ok |-> r.found, modem |-> r.val, ap |-> 0, pa |-> 0,
                      present |-> IF r.found THEN {"modem"} ELSE {}]
    /\ call' = [call EXCEPT !.done = TRUE]
    /\ pc' = "returned"
    /\ UNCHANGED CallFrame
    /\ UNCHANGED progVars

NextParse == CallExtractTempValues \/ CallExtractSingle

SpecParse == InitParse /\ [][NextParse]_vars

(***************************************************************************)
(* The AT exchange (src/src/serial.c) called on its own                    *)
(***************************************************************************)
AT_TIMEOUT_SEC == 5
MIN_BUFFER_SIZE == 64
MAX_BUFFER_SIZE == 4096
MAX_RESPONSE == 1024

\* longest script of read() results explored
MaxScript == 2

\* serial.c:39-54 (the buffer pointer is never null here)
validate_serial_params(fd, buflen) ==
    fd >= 0 /\ buflen >= MIN_BUFFER_SIZE /\ buflen <= MAX_BUFFER_SIZE

\* serial.c:159 and 164
HasTerminator(buf) ==
    \/ Contains(buf, "\nOK") \/ Contains(buf, "\rOK")
    \/ Contains(buf, "\nERROR") \/ Contains(buf, "\rERROR")

\* read(fd, p, n) hands over at most n bytes
Take(bytes, n) == IF Len(bytes) <= n THEN bytes ELSE SubSeq(bytes, 1, n)

\* The while loop of read_modem_response (serial.c:151-187).  script is what
\* the successive read() calls do: deliver bytes, return 0 or fail with EAGAIN
\* when "at" seconds have gone by since the start, or fail with another errno.
\* The port is in blocking mode with VMIN = 1 (serial.c:109-110, 119-122), so
\* a read() on a silent line does not return: that is the end of the script.
\* before is the buffer as it was when the last read() was issued.
RECURSIVE ReadLoop(_, _, _, _)
ReadLoop(buf, script, buflen, reads) ==
    IF ~(Len(buf) < buflen - 1)
    THEN [ret |-> Len(buf), buf |-> buf, status |-> "full", reads |-> reads, before |-> buf]
    ELSE IF script = <<>>
    THEN [ret |-> 0, buf |-> buf, status |-> "blocked", reads |-> reads + 1, before |-> buf]
    ELSE LET e == Head(script)
         IN  IF e.n = "data"
             THEN LET b2 == buf \o Take(e.bytes, buflen - Len(buf) - 1)
                  IN  IF HasTerminator(b2)
                      THEN [ret |-> Len(b2), buf |-> b2, status |-> "terminator",
                            reads |-> reads + 1, before |-> buf]
                      ELSE ReadLoop(b2, Tail(script), buflen, reads + 1)
             ELSE IF e.n = "eio"
             THEN [ret |-> -1, buf |-> buf, status |-> "error", reads |-> reads + 1,
                   before |-> buf]
             ELSE IF e.at >= AT_TIMEOUT_SEC
             THEN [ret |-> Len(buf), buf |-> buf, status |-> "timeout",
                   reads |-> reads + 1, before |-> buf]
             ELSE ReadLoop(buf, Tail(script), buflen, reads + 1)

\* serial.c:134-194
read_modem_response(fd, buflen, script) ==
    IF ~validate_serial_params(fd, buflen)
    THEN [ret |-> -1, buf |-> "", status |-> "einval", reads |-> 0, before |-> ""]
    ELSE ReadLoop("", script, buflen, 0)

\* serial.c:204-235; wr tells which of the two write() calls fails, if any
send_at_command(fd, buflen, wr, script) ==
    IF fd < 0 \/ ~validate_serial_params(fd, buflen)
    THEN [ret |-> -1, buf |-> "", status |-> "einval", reads |-> 0, before |-> ""]
    ELSE IF wr # "ok"
    THEN [ret |-> -1, buf |-> "", status |-> "write_failed", reads |-> 0, before |-> ""]
    ELSE read_modem_response(fd, buflen, script)

\* daemon.c:308, the test the loop applies to the result
QuerySucceeded(r) == r > 0

\* pieces of an answer as the line delivers them
ChunkReportToO == "+QTEMP:\"modem-ambient-usr\",\"30\"\r\n\r\nO"
ChunkK == "K\r\n"
ChunkError == "\r\nERROR\r\n"
ChunkPartial == "+QTEMP:\"modem"
\* 72 bytes of unsolicited output without a terminator
ChunkNoise ==
    "+QIND: \"csq\",21,99 +QIND: \"csq\",22,99 +QIND: \"csq\",23,99 +QIND: \"act\""

ReadEvents ==
    { [n |-> "data", bytes |-> b, at |-> 0] :
        b \in {ChunkReportToO, ChunkK, ChunkError, ChunkPartial, ChunkNoise} }
    \cup { [n |-> k, bytes |-> "", at |-> t] :
             k \in {"zero", "eagain"}, t \in {0, AT_TIMEOUT_SEC} }
    \cup { [n |-> "eio", bytes |-> "", at |-> 0] }

RECURSIVE Scripts(_)
Scripts(n) ==
    IF n = 0 THEN {<<>>}
    ELSE Scripts(n - 1) \cup
         {Append(sc, e) : sc \in {x \in Scripts(n - 1) : Len(x) = n - 1}, e \in ReadEvents}

ExchangeCalls ==
    { [fn |-> "send_at_command", response |-> "", labels |-> <<>>, done |-> FALSE,
       fd |-> 3, buflen |-> bl, wr |-> "ok", script |-> sc,
       ret |-> 0, status |-> "", reads |-> 0, before |-> ""] :
        bl \in {MIN_BUFFER_SIZE, MAX_RESPONSE}, sc \in Scripts(MaxScript) }
    \cup
    { [fn |-> "send_at_command", response |-> "", labels |-> <<>>, done |-> FALSE,
       fd |-> f, buflen |-> MAX_RESPONSE, wr |-> w, script |-> <<>>,
       ret |-> 0, status |-> "", reads |-> 0, before |-> ""] :
        f \in {-1, 3}, w \in {"command_fails", "crlf_fails"} }

InitExchange == CallInit(ExchangeCalls)

\* send_at_command(fd, AT_COMMAND, response, sizeof(response)); a call whose
\* read() blocks for good does not return
CallSendAtCommand ==
    /\ pc = "call"
    /\ call.fn = "send_at_command"
    /\ LET r == send_at_command(call.fd, call.buflen, call.wr, call.script)
       IN  /\ call' = [call EXCEPT !.done = (r.status # "blocked"), !.response = r.buf,
                                   !.ret = r.ret, !.status = r.status,
                                   !.reads = r.reads, !.before = r.before]
           /\ pc' = IF r.status = "blocked" THEN "blocked" ELSE "returned"
    /\ UNCHANGED <<parsed>>
    /\ UNCHANGED CallFrame
    /\ UNCHANGED progVars

NextExchange == CallSendAtCommand

SpecExchange == InitExchange /\ [][NextExchange]_vars

(***************************************************************************)
(* Daemons started and stopped as separate processes: daemon_mode up to    *)
(* its loop, the loop exit and the atexit handler, one action per call of  *)
(* system.c that reads or changes the files.  A process is "idle" before   *)
(* it starts, "checked" after check_daemon_running, in the "loop" after    *)
(* acquire_daemon_lock, "returned" after daemon_mode returned 0 and        *)
(* "exited" at the end (after return 3, or after the atexit handler).      *)
(***************************************************************************)
DaemonModeCall == [fn |-> "daemon_mode", response |-> "", labels |-> <<>>, done |-> FALSE]

InitLock == CallInit({DaemonModeCall})

LockFrame == <<pc, shutdown_flag, outcome, written, writable, parsed, failSleep, openFails,
               atFails, reloads, cycleFails, call, stats_logged, healthy, discoveryVars,
               kmodVars>>

\* the processes kill(pid, 0) finds
Alive == {q \in Pids : procs[q] \notin {"idle", "exited"}}

\* daemon.c:99-103
CheckRunning(p) ==
    /\ procs[p] = "idle"
    /\ LET r == check_daemon_running(lockfs, Alive)
       IN  /\ lockfs' = r.fs
           /\ procs' = [procs EXCEPT ![p] = IF r.rc # 0 THEN "exited" ELSE "checked"]
    /\ UNCHANGED daemon_lock_fd
    /\ UNCHANGED LockFrame
    /\ UNCHANGED progVars

\* daemon.c:106-116: acquire_daemon_lock, then atexit(daemon_cleanup)
AcquireLock(p) ==
    /\ procs[p] = "checked"
    /\ \E env \in {"ok", "eacces"} :
        LET r == acquire_daemon_lock(lockfs, p, env)
        IN  /\ lockfs' = r.fs
            /\ daemon_lock_fd' = [daemon_lock_fd EXCEPT ![p] = r.fd]
            /\ procs' = [procs EXCEPT ![p] = IF r.rc < 0 THEN "exited" ELSE "loop"]
    /\ UNCHANGED LockFrame
    /\ UNCHANGED progVars

\* daemon.c:211, 510-518: the stop flag is seen, release_daemon_lock, return 0
StopDaemon(p) ==
    /\ procs[p] = "loop"
    /\ LET r == release_daemon_lock(lockfs, daemon_lock_fd[p], p)
       IN  /\ lockfs' = r.fs
           /\ daemon_lock_fd' = [daemon_lock_fd EXCEPT ![p] = r.fd]
    /\ procs' = [procs EXCEPT ![p] = "returned"]
    /\ UNCHANGED LockFrame
    /\ UNCHANGED progVars

\* daemon.c:67-77: daemon_cleanup, run by exit() after main returned
DaemonCleanup(p) ==
    /\ procs[p] = "returned"
    /\ LET r == release_daemon_lock(lockfs, daemon_lock_fd[p], p)
       IN  /\ lockfs' = r.fs
           /\ daemon_lock_fd' = [daemon_lock_fd EXCEPT ![p] = r.fd]
    /\ procs' = [procs EXCEPT ![p] = "exited"]
    /\ UNCHANGED LockFrame
    /\ UNCHANGED progVars

NextLock ==
    \E p \in Pids : CheckRunning(p) \/ AcquireLock(p) \/ StopDaemon(p) \/ DaemonCleanup(p)

SpecLock == InitLock /\ [][NextLock]_vars

(***************************************************************************)
(* cli.c: cli_mode called once by a "read" process, next to a daemon that  *)
(* runs, never ran or was killed.  The call's inputs are the sysfs objects *)
(* present (the name of the kernel object under /sys/kernel and of the     *)
(* hwmon device, with the content of their temperature files), the UCI     *)
(* store, the serial device and the modem's answer.                        *)
(***************************************************************************)
CLI_SUCCESS == 0
CLI_ERR_SERIAL == 1
CLI_ERR_OTHER == 2

\* cli.c:164, the kernel object cli_mode reads
CliMainName == "quectel_rm520n"

\* cli.c:82, the hwmon device names find_cached_hwmon_path accepts
CliHwmonNames == {"quectel_rm520n", "quectel_rm520n_hwmon"}

\* the names under which the modules of the repository register: kmod/main.c:489
\* and kmod/hwmon.c:445, quectel_rm520n_temp.c:94; "none": no such object
SysfsNames == {"none", "quectel_rm520n_thermal", "quectel_rm520n"}

\* what a temperature file holds: kmod/main.c:73 prints the integer,
\* quectel_rm520n_temp.c:52 starts with "N/A"
SysfsContents == {"N/A", "0", "45000"}

\* cli.c:170, 199
ValidReading(str) == str # "N/A" /\ str # "0"

\* cli.c:262-266
CliReturn(status) == IF status = "ok" THEN 0 ELSE 1

\* cli.c:141-267.  running is the result of check_daemon_running, in the
\* inputs, cfg the configuration just read, h the descriptors of the process.
\* opened: init_serial_port was called; sent: send_at_command was called.
cli_mode(running, in, cfg, h) ==
    LET main_read  == running # 0 /\ in.main_name = CliMainName
        str1       == IF main_read THEN in.main ELSE "N/A"
        hwmon_read == running # 0 /\ in.hwmon_name \in CliHwmonNames
        str2       == IF hwmon_read THEN in.hwmon ELSE str1
        o          == init_serial_port(h, cfg.serial_port, cfg.baud_rate, in.env)
        t          == extract_temp_values(in.q, cfg.temp_modem_prefix, cfg.temp_ap_prefix,
                                          cfg.temp_pa_prefix)
        result(status, str, source, opened, sent) ==
            [rc |-> CliReturn(status), status |-> status, temp_str |-> str,
             source |-> source, opened |-> opened, sent |-> sent, handles |-> h]
    IN  IF main_read /\ ValidReading(in.main)
        THEN result("ok", str1, "main", FALSE, FALSE)
        ELSE IF hwmon_read /\ ValidReading(in.hwmon)
        THEN result("ok", str2, "hwmon", FALSE, FALSE)
        ELSE IF o.fd < 0
        THEN result("Error: Serial port not available", str2, "none", TRUE, FALSE)
        ELSE IF in.q = "fail"
        THEN result("Error: Communication failed", str2, "none", TRUE, TRUE)
        ELSE IF t.ok
        THEN result("ok", ToString(MilliDegrees(BestTemp(t))), "at", TRUE, TRUE)
        ELSE result("Error: Invalid response format", "N/A", "none", TRUE, TRUE)

\* main.c:274, the watch loop retries without sleeping
WatchRetriesAtOnce(result) == result = CLI_ERR_SERIAL

CliStores == {config_set_defaults, [config_set_defaults EXCEPT !.serial_port = "/dev/ttyUSB3"]}

CliCalls ==
    { [fn |-> "cli_mode", main_name |-> m.name, main |-> m.content,
       hwmon_name |-> hw.name, hwmon |-> hw.content, loaded |-> l, store |-> st,
       env |-> e, q |-> q, done |-> FALSE, running |-> 0, rc |-> -1, status |-> "",
       temp_str |-> "", source |-> "none", opened |-> FALSE, sent |-> FALSE] :
        m \in {[name |-> "none", content |-> "N/A"]}
              \cup [name : SysfsNames \ {"none"}, content : SysfsContents],
        hw \in {[name |-> "none", content |-> "N/A"]}
               \cup [name : SysfsNames \ {"none"}, content : SysfsContents],
        l \in BOOLEAN, st \in CliStores, e \in SerialEnvs,
        q \in {"fail", RespNormal, RespTooHot, RespError} }

\* the daemon was killed: its files are left, the kernel dropped its lock
DaemonKilled ==
    /\ lockfs = [acquire_daemon_lock(NoFiles, Self, "ok").fs EXCEPT !.flock = {}]
    /\ daemon_lock_fd = [p \in Pids |-> -1]
    /\ procs = [p \in Pids |-> IF p = Self THEN "exited" ELSE "idle"]

InitCli == CallState(CliCalls) /\ (NoDaemon \/ LockHeldBySelf \/ DaemonKilled)

CliFrame == <<shutdown_flag, outcome, written, writable, parsed, failSleep, openFails,
              atFails, reloads, cycleFails, daemon_lock_fd, procs, stats_logged, healthy,
              discoveryVars, kmodVars>>

\* cli_mode(temp_str, temp_size), its serial port closed again before it returns
CallCliMode ==
    /\ pc = "call"
    /\ call.fn = "cli_mode"
    /\ LET c   == config_read_uci(call.loaded, call.store)
           chk == check_daemon_running(lockfs, Alive)
           r   == cli_mode(chk.rc, call, c.cfg, handles)
       IN  /\ config' = c.cfg
           /\ lockfs' = chk.fs
           /\ handles' = r.handles
           /\ call' = [call EXCEPT !.done = TRUE, !.running = chk.rc, !.rc = r.rc,
                                   !.status = r.status, !.temp_str = r.temp_str,
                                   !.source = r.source, !.opened = r.opened,
                                   !.sent = r.sent]
    /\ pc' = "returned"
    /\ UNCHANGED <<g_serial_fd, serial_reconnect_attempts, reconnect_delay, g_stats,
                   loop_config, config_checked, hwmon_available, ret, zones, sinks>>
    /\ UNCHANGED CliFrame

NextCli == CallCliMode

SpecCli == InitCli /\ [][NextCli]_vars

(***************************************************************************)
(* find_quectel_hwmon_device called again and again while devices come     *)
(* and go in /sys/class/hwmon                                              *)
(***************************************************************************)
FindCalls ==
    { [fn |-> "find_quectel_hwmon_device", use_cache |-> u, ret |-> -1,
       scanned |-> FALSE, done |-> FALSE] : u \in {0, 1} }

InitHwmon == CallInit(FindCalls)

\* what the discovery and the hwmon class leave alone
HwmonFrame == <<shutdown_flag, outcome, written, writable, parsed, failSleep, openFails,
                atFails, reloads, cycleFails, stats_logged, healthy, lockVars, kmodVars>>

\* find_quectel_hwmon_device(use_cache)
CallFindHwmonDevice ==
    /\ pc = "call"
    /\ call.fn = "find_quectel_hwmon_device"
    /\ LET r == find_quectel_hwmon_device(
                    call.use_cache,
                    [device_num |-> g_hwmon_device_num, cache_valid |-> g_hwmon_cache_valid],
                    hwmon_class)
       IN  /\ g_hwmon_device_num' = r.cache.device_num
           /\ g_hwmon_cache_valid' = r.cache.cache_valid
           /\ call' = [call EXCEPT !.ret = r.ret, !.scanned = r.scanned, !.done = TRUE]
    /\ pc' = "returned"
    /\ UNCHANGED hwmon_class
    /\ UNCHANGED HwmonFrame
    /\ UNCHANGED progVars

\* the caller goes on and calls again
NextFindCall ==
    /\ pc = "returned"
    /\ call.fn = "find_quectel_hwmon_device"
    /\ call' \in FindCalls
    /\ pc' = "call"
    /\ UNCHANGED discoveryVars
    /\ UNCHANGED HwmonFrame
    /\ UNCHANGED progVars

\* the sequence s with e put at position pos
InsertAt(s, pos, e) == SubSeq(s, 1, pos - 1) \o <<e>> \o SubSeq(s, pos, Len(s))

\* the sequence s without its element at position pos
RemoveAt(s, pos) == SubSeq(s, 1, pos - 1) \o SubSeq(s, pos + 1, Len(s))

\* between two calls a driver registers a hwmon device; readdir may yield
\* it at any position
RegisterHwmon ==
    /\ pc = "call"
    /\ call.fn = "find_quectel_hwmon_device"
    /\ hwmon_class.exists
    /\ Len(hwmon_class.entries) < MaxHwmon
    /\ \E e \in HwmonEntries, pos \in 1..(Len(hwmon_class.entries) + 1) :
          /\ \A i \in 1..Len(hwmon_class.entries) : hwmon_class.entries[i].d_name # e.d_name
          /\ hwmon_class' = [hwmon_class EXCEPT !.entries = InsertAt(@, pos, e)]
    /\ UNCHANGED <<pc, call, g_hwmon_device_num, g_hwmon_cache_valid>>
    /\ UNCHANGED HwmonFrame
    /\ UNCHANGED progVars

\* between two calls a hwmon device goes away
UnregisterHwmon ==
    /\ pc = "call"
    /\ call.fn = "find_quectel_hwmon_device"
    /\ \E pos \in 1..Len(hwmon_class.entries) :
          hwmon_class' = [hwmon_class EXCEPT !.entries = RemoveAt(@, pos)]
    /\ UNCHANGED <<pc, call, g_hwmon_device_num, g_hwmon_cache_valid>>
    /\ UNCHANGED HwmonFrame
    /\ UNCHANGED progVars

\* sysfs is not mounted, or mounted again: opendir fails, or succeeds
MountSysfs ==
    /\ pc = "call"
    /\ call.fn = "find_quectel_hwmon_device"
    /\ hwmon_class.entries = <<>>
    /\ hwmon_class' = [hwmon_class EXCEPT !.exists = ~@]
    /\ UNCHANGED <<pc, call, g_hwmon_device_num, g_hwmon_cache_valid>>
    /\ UNCHANGED HwmonFrame
    /\ UNCHANGED progVars

NextHwmon ==
    \/ CallFindHwmonDevice
    \/ NextFindCall
    \/ RegisterHwmon
    \/ UnregisterHwmon
    \/ MountSysfs

SpecHwmon == InitHwmon /\ [][NextHwmon]_vars

(***************************************************************************)
(* kmod/main.c: writes to temp_min, temp_max and temp_crit under           *)
(* /sys/kernel/quectel_rm520n.  Each store runs its check and its          *)
(* assignment under temp_lock, so a write is one step.                     *)
(***************************************************************************)
\* the texts written to the attributes
ThresholdWrites ==
    {"-45000", "-40000", "-30000", "0", "80000\n", "85000", "100000", "+125000",
     "130000", "2147483647", "8o", ""}

\* nothing written yet
NoThresholdCall == [fn |-> "none", buf |-> "", rc |-> 0, done |-> FALSE]

InitKmod == CallInit({NoThresholdCall})

KmodFrame == <<pc, shutdown_flag, outcome, written, writable, parsed, failSleep, openFails,
               atFails, reloads, cycleFails, stats_logged, healthy, lockVars,
               discoveryVars, data, writers>>

\* write(fd of temp_min, buf)
TempMinStore ==
    /\ \E buf \in ThresholdWrites :
          LET r == temp_min_store(buf, temp_min, temp_max)
          IN  /\ temp_min' = r.temp_min
              /\ call' = [fn |-> "temp_min_store", buf |-> buf, rc |-> r.rc, done |-> TRUE]
    /\ UNCHANGED <<temp_max, temp_crit>>
    /\ UNCHANGED KmodFrame
    /\ UNCHANGED progVars

\* write(fd of temp_max, buf)
TempMaxStore ==
    /\ \E buf \in ThresholdWrites :
          LET r == temp_max_store(buf, temp_min, temp_max)
          IN  /\ temp_max' = r.temp_max
              /\ call' = [fn |-> "temp_max_store", buf |-> buf, rc |-> r.rc, done |-> TRUE]
    /\ UNCHANGED <<temp_min, temp_crit>>
    /\ UNCHANGED KmodFrame
    /\ UNCHANGED progVars

\* write(fd of temp_crit, buf)
TempCritStore ==
    /\ \E buf \in ThresholdWrites :
          LET r == temp_crit_store(buf, temp_max, temp_crit)
          IN  /\ temp_crit' = r.temp_crit
              /\ call' = [fn |-> "temp_crit_store", buf |-> buf, rc |-> r.rc, done |-> TRUE]
    /\ UNCHANGED <<temp_min, temp_max>>
    /\ UNCHANGED KmodFrame
    /\ UNCHANGED progVars

NextKmod ==
    \/ TempMinStore
    \/ TempMaxStore
    \/ TempCritStore

SpecKmod == InitKmod /\ [][NextKmod]_vars

(***************************************************************************)
(* kmod/hwmon.c: temp1_min and temp1_max of the hwmon device written by    *)
(* several threads.  A store is a sequence of steps: it parses its text,   *)
(* compares the value with the thresholds, takes data->lock, assigns and   *)
(* releases the lock.                                                      *)
(***************************************************************************)
HwmonStores == {"temp1_min_store", "temp1_max_store"}

HwmonWrites == {"-45000", "-30000", "0", "50000\n", "75000", "130000", "5x", ""}

InitHwmonStore == CallInit({NoThresholdCall})

HwmonStoreFrame == <<pc, call, shutdown_flag, outcome, written, writable, parsed,
                     failSleep, openFails, atFails, reloads, cycleFails, stats_logged,
                     healthy, lockVars, discoveryVars, temp_min, temp_max, temp_crit>>

\* hwmon.c:229-246, 278-295: the checks of the arguments and kstrtoint
StoreEnter(t) ==
    /\ writers[t].pc \in {"idle", "returned"}
    /\ \E f \in HwmonStores, buf \in HwmonWrites :
          LET k == kstrtoint(buf)
          IN  writers' = [writers EXCEPT ![t] =
                  IF Len(buf) = 0
                  THEN [fn |-> f, buf |-> buf, val |-> 0, pc |-> "returned", rc |-> -EINVAL]
                  ELSE IF k.rc # 0
                  THEN [fn |-> f, buf |-> buf, val |-> 0, pc |-> "returned", rc |-> k.rc]
                  ELSE [fn |-> f, buf |-> buf, val |-> k.val, pc |-> "parsed", rc |-> 0]]
    /\ UNCHANGED data
    /\ UNCHANGED HwmonStoreFrame
    /\ UNCHANGED progVars

\* hwmon.c:248-256 and 297-305: the comparisons, made before the lock is taken
StoreRejects(w, d) ==
    IF w.fn = "temp1_min_store"
    THEN w.val < TEMP_ABSOLUTE_MIN \/ w.val > d.temp_max
    ELSE w.val < d.temp_min \/ w.val > TEMP_ABSOLUTE_MAX

\* hwmon.c:259 and 308
StoreAssigns(w, d) ==
    IF w.fn = "temp1_min_store" THEN [d EXCEPT !.temp_min = w.val]
    ELSE [d EXCEPT !.temp_max = w.val]

StoreValidate(t) ==
    /\ writers[t].pc = "parsed"
    /\ writers' = [writers EXCEPT ![t] =
          IF StoreRejects(@, data) THEN [@ EXCEPT !.pc = "returned", !.rc = -EINVAL]
          ELSE [@ EXCEPT !.pc = "validated"]]
    /\ UNCHANGED data
    /\ UNCHANGED HwmonStoreFrame
    /\ UNCHANGED progVars

\* hwmon.c:258 and 307, mutex_lock(&data->lock)
StoreLock(t) ==
    /\ writers[t].pc = "validated"
    /\ data.lock = 0
    /\ data' = [data EXCEPT !.lock = t]
    /\ writers' = [writers EXCEPT ![t].pc = "locked"]
    /\ UNCHANGED HwmonStoreFrame
    /\ UNCHANGED progVars

StoreAssign(t) ==
    /\ writers[t].pc = "locked"
    /\ data' = StoreAssigns(writers[t], data)
    /\ writers' = [writers EXCEPT ![t].pc = "assigned"]
    /\ UNCHANGED HwmonStoreFrame
    /\ UNCHANGED progVars

\* hwmon.c:260-262 and 309-311, mutex_unlock and return count
StoreUnlock(t) ==
    /\ writers[t].pc = "assigned"
    /\ data' = [data EXCEPT !.lock = 0]
    /\ writers' = [writers EXCEPT ![t].pc = "returned", ![t].rc = Len(writers[t].buf)]
    /\ UNCHANGED HwmonStoreFrame
    /\ UNCHANGED progVars

NextHwmonStore ==
    \/ \E t \in Writers : StoreEnter(t)
    \/ \E t \in Writers : StoreValidate(t)
    \/ \E t \in Writers : StoreLock(t)
    \/ \E t \in Writers : StoreAssign(t)
    \/ \E t \in Writers : StoreUnlock(t)

SpecHwmonStore == InitHwmonStore /\ [][NextHwmonStore]_vars

(***************************************************************************)
(* Properties                                                              *)
(***************************************************************************)
Min(a, b) == IF a < b THEN a ELSE b

Max3(t) ==
    CHOOSE m \in {t.modem, t.ap, t.pa} : \A x \in {t.modem, t.ap, t.pa} : x <= m

\* C1: once SERIAL_MAX_FAILED_CYCLES cycles of SERIAL_MAX_RECONNECT_ATTEMPTS
\* failed opens have gone by without a successful open, the daemon starts no
\* further iteration, and if it has returned without a stop request its return
\* value is not zero.
C1_FatalAfterFailedCycles ==
    openFails >= SERIAL_MAX_FAILED_CYCLES * SERIAL_MAX_RECONNECT_ATTEMPTS =>
        /\ pc \notin {"reload", "serial"}
        /\ (pc = "done" /\ ~shutdown_flag) => ret # 0

\* C2: at most one serial handle is open at any time, and it is the one
\* g_serial_fd names: no handle outlives the descriptor variable.
C2_AtMostOneHandle ==
    /\ Cardinality(handles) <= 1
    /\ \A h \in handles : h.fd = g_serial_fd

\* a handle reopened after the query failures closed the previous one
C2_Witness ==
    /\ outcome = "opened"
    /\ g_stats.at_command_errors >= 4
    /\ Cardinality(handles) = 1

\* C3: every value written to a sink is a whole number of milli-degrees within
\* [-40000, 125000], and it is 1000 times the highest reading, not a clamped one.
C3_WrittenWithinEnvelope ==
    /\ \A w \in written :
        /\ w.val >= -40000 /\ w.val <= 125000
        /\ w.val = 1000 * Max3(parsed)
    /\ \A x \in DOMAIN sinks :
        sinks[x] # <<>> => sinks[x][1] >= -40000 /\ sinks[x][1] <= 125000

\* the upper end of the envelope was written
C3_Witness == \E w \in written : w.val = 125000

\* C4: a step of a tick that is not a successful read writes to no sink and
\* leaves the content of every sink as it was.
C4_FailedTickWritesNothing ==
    [][ /\ (sinks' # sinks \/ written' # {}) => outcome' = "ok"
        /\ outcome' \in {"backoff", "exhausted", "at_error", "parse_error", "range_error"}
              => sinks' = sinks
      ]_vars

\* a failed tick after a successful one: the sink still holds the old value
C4_Witness ==
    /\ outcome \in {"at_error", "parse_error", "exhausted"}
    /\ pc = "stats"
    /\ sinks[<<"main", 0>>] = <<45000>>

\* C5: a thermal zone is written only if its type contains none of cpu, gpu,
\* soc, board and is one of the modem type names.
C5_OnlyModemZonesWritten ==
    \A i \in 1..Len(zones) :
        (sinks[<<"zone", i>>] # <<>> \/ \E w \in written : w.sink = <<"zone", i>>) =>
            /\ \A sub \in {"cpu", "gpu", "soc", "board"} : ~Contains(zones[i], sub)
            /\ zones[i] \in {"quectel_rm520n", "modem_thermal", "modem-thermal",
                             "quectel-thermal", "rm520n-thermal"}

\* a successful tick with a writable cpu zone as the only candidate
C5_Witness ==
    /\ outcome = "ok"
    /\ zones = <<"cpu-thermal">>
    /\ "zone" \in writable
    /\ written = {}

\* C6: the step that selects a temperature writes every sink that is writable,
\* whatever the state of the others, counts one successful read and goes on to
\* the statistics step of the same tick.
C6_SinkIndependence ==
    [][ (pc = "read" /\ outcome' = "ok") =>
          /\ g_stats'.successful_reads = g_stats.successful_reads + 1
          /\ pc' = "stats"
          /\ \A s \in writable' \cap {"main", "platform", "sensor"} :
                \E w \in written' : w.sink = <<s, 0>>
          /\ (hwmon_available /\ "hwmon" \in writable') =>
                \E w \in written' : w.sink = <<"hwmon", 0>>
          /\ ("zone" \in writable' /\ \E i \in 1..Len(zones) : zones[i] = "modem_thermal") =>
                \E w \in written' : w.sink[1] = "zone"
      ]_vars

\* the main sink is not writable, the others are written
C6_Witness ==
    /\ outcome = "ok"
    /\ writable = AllSinks \ {"main"}
    /\ {w.sink : w \in written} =
          {<<"hwmon", 0>>, <<"platform", 0>>, <<"sensor", 0>>, <<"zone", 3>>}

\* C7: daemon_mode leaves its loop only from the loop condition with the stop
\* flag set, or after the reconnect cycles were exhausted; a step that counts a
\* failure never ends the loop.
C7_LoopLeftOnlyOnStop ==
    [][ pc' = "done" =>
          \/ pc = "done"
          \/ pc = "check" /\ shutdown_flag
          \/ openFails >= SERIAL_MAX_FAILED_CYCLES * SERIAL_MAX_RECONNECT_ATTEMPTS
      ]_vars

\* the loop ended on the stop flag after failures of each kind were counted
C7_Witness ==
    /\ pc = "done"
    /\ g_stats.serial_errors >= 1
    /\ g_stats.at_command_errors >= 1
    /\ g_stats.parse_errors >= 1

\* C8: the sleep after the Nth consecutive failed open is
\* min(10 * 2^(N-1), 60) seconds for N = 1..5, and the delay never exceeds 60.
C8_BackoffSchedule ==
    /\ reconnect_delay <= SERIAL_MAX_RECONNECT_DELAY
    /\ failSleep.n \in 1..5 =>
          failSleep.secs = Min(SERIAL_INITIAL_RECONNECT_DELAY * 2^(failSleep.n - 1),
                               SERIAL_MAX_RECONNECT_DELAY)

\* C9: a cycle is declared exhausted at its 5th failed open, and the attempt
\* counter and the delay are then back at 0 and 10 s.
C9_ExhaustedAtFiveThenReset ==
    outcome = "exhausted" =>
        /\ openFails = SERIAL_MAX_RECONNECT_ATTEMPTS
        /\ serial_reconnect_attempts = 0
        /\ reconnect_delay = SERIAL_INITIAL_RECONNECT_DELAY

\* C10: a failed query leaves the handle open while fewer than 3 queries have
\* failed on it before; the 4th failure closes it and resets the counter; with
\* the handle closed the next serial step is an open attempt.  Only failed
\* queries are counted: a freshly opened handle starts at zero.
C10_FourthQueryFailureCloses ==
    [][ /\ (pc = "read" /\ outcome' = "at_error") =>
              IF atFails < 3
              THEN g_serial_fd' = g_serial_fd /\ g_serial_fd' >= 0 /\ handles' = handles
              ELSE g_serial_fd' = -1 /\ handles' = {} /\ serial_reconnect_attempts' = 0
        /\ (pc = "serial" /\ pc' # "serial" /\ g_serial_fd < 0) =>
              \/ g_stats'.serial_errors = g_stats.serial_errors + 1
              \/ g_serial_fd' >= 0 /\ atFails' = 0 /\ serial_reconnect_attempts' = 0
      ]_vars

\* the 4th failed query on a handle, with a successful read in between
C10_Witness ==
    /\ outcome = "at_error"
    /\ atFails = 4
    /\ g_serial_fd = -1
    /\ g_stats.successful_reads >= 1

C12_OpenResetsController ==
    [][ (pc = "serial" /\ g_serial_fd < 0 /\ g_serial_fd' >= 0) =>
          /\ serial_reconnect_attempts' = 0
          /\ reconnect_delay' = SERIAL_INITIAL_RECONNECT_DELAY
      ]_vars

\* an open that succeeded after three failed ones in a row, which had taken the
\* counter to 3 and the delay to 60
C12_Witness ==
    /\ outcome = "opened"
    /\ g_stats.serial_errors = 3
    /\ g_stats.total_iterations = 4
    /\ serial_reconnect_attempts = 0
    /\ reconnect_delay = SERIAL_INITIAL_RECONNECT_DELAY

SetMax(S) == CHOOSE m \in S : \A x \in S : x <= m

\* the readings of the labels that extract_single_temperature found
PresentReadings(t) == {t[l] : l \in t.present}

\* C13: when a response parsed and at least one label was present, the value
\* written is 1000 times the maximum of the present readings only; an absent
\* label does not contribute.
C13_SelectsMaxOfPresent ==
    \A w \in written :
        parsed.present # {} => w.val = 1000 * SetMax(PresentReadings(parsed))

\* every index at which pat occurs in r
Occurrences(r, pat) ==
    {i \in 1..(Len(r) - Len(pat) + 1) : SubSeq(r, i, i + Len(pat) - 1) = pat}

\* the line that holds index i begins with the report marker
OnMarkerLine(r, i) ==
    LET ls == LineStart(r, i)
    IN  ls + 6 <= Len(r) /\ SubSeq(r, ls, ls + 6) = "+QTEMP:"

\* the integer that follows index j after separators and an opening quote
ValueAfter(r, j) ==
    LET a == SkipSeparators(r, j)
        b == IF CharAt(r, a) = "\"" THEN a + 1 ELSE a
        c == CharAt(r, b)
    IN  IF IsDigit(c) \/ c = "-" THEN StrToL(r, b) ELSE [ok |-> FALSE, val |-> 0]

\* the occurrences of pat on a report line that are followed by an integer
GoodOccurrences(r, pat) ==
    {i \in Occurrences(r, pat) : OnMarkerLine(r, i) /\ ValueAfter(r, i + Len(pat)).ok}

LabelNames == <<"modem", "ap", "pa">>

\* the configured labels that occur, quoted, in the response of a call
OccurringLabels(c) ==
    {LabelNames[k] : k \in {j \in 1..3 : Occurrences(c.response, Quoted(c.labels[j])) # {}}}

\* every occurrence of the label is on a report line with a value in lo..hi
WellReported(r, label, lo, hi) ==
    \A i \in Occurrences(r, Quoted(label)) :
        /\ OnMarkerLine(r, i)
        /\ ValueAfter(r, i + Len(Quoted(label))).ok
        /\ ValueAfter(r, i + Len(Quoted(label))).val \in lo..hi

Returned(fn) == pc = "returned" /\ call.fn = fn

\* what the parser has to reject: no marker, an error marker, or an
\* acknowledgment without a reading for any configured label
MustReject(c) ==
    \/ ~Contains(c.response, "+QTEMP:")
    \/ Contains(c.response, "ERROR")
    \/ Contains(c.response, "OK") /\ OccurringLabels(c) = {}

\* C14: a response with the marker that reports zero to three of the
\* configured labels, each with an in-range value, parses, whatever the labels
\* are configured to, and exactly the labels that occur are present.
C14_ParsesWhateverLabels ==
    ( /\ Returned("extract_temp_values")
      /\ ~MustReject(call)
      /\ \A k \in 1..3 : WellReported(call.response, call.labels[k], -40, 120) )
    => /\ parsed.ok
       /\ parsed.present = OccurringLabels(call)

C16_RejectsNonReports ==
    (Returned("extract_temp_values") /\ MustReject(call)) => ~parsed.ok

\* C17: a label yields a reading only from an occurrence on a report line, and
\* yields one whenever such an occurrence followed by an integer exists,
\* wherever else the label text occurs in the buffer.
C17_ReadsLabelOnReportLine ==
    Returned("extract_single_temperature") =>
        LET pat  == Quoted(call.labels[1])
            good == GoodOccurrences(call.response, pat)
        IN  /\ parsed.ok =>
                  \E i \in good : ValueAfter(call.response, i + Len(pat)).val = parsed.modem
            /\ good # {} => parsed.ok

\* all bytes the data events of a script deliver, in order
RECURSIVE Delivered(_)
Delivered(script) ==
    IF script = <<>> THEN ""
    ELSE (IF Head(script).n = "data" THEN Head(script).bytes ELSE "") \o Delivered(Tail(script))

\* C18: a query is reported to the loop as failed exactly when a write of the
\* command failed or the timeout elapsed with no terminator received; a
\* response that ends in a terminator is a success that returns all bytes read.
\* (Stated for the exchanges in which no read() fails with an I/O error.)
C18_FailureIffWriteOrTimeout ==
    (Returned("send_at_command") /\ call.fd >= 0 /\ call.status # "error") =>
        /\ ~QuerySucceeded(call.ret) <=>
              (call.status = "write_failed" \/ call.status = "timeout")
        /\ call.status = "terminator" =>
              /\ QuerySucceeded(call.ret)
              /\ call.ret = Len(call.response)
              /\ call.response =
                    Delivered(SubSeq(call.script, 1, call.reads))

\* C19: every exchange returns: it is never left waiting in read(), it ends
\* on a terminator, a full buffer, a read error or the timeout, and no read()
\* is issued once the buffer holds a terminator.
C19_ExchangeTerminates ==
    call.fn = "send_at_command" =>
        /\ pc # "blocked"
        /\ call.done =>
              /\ call.status \in {"terminator", "full", "error", "timeout",
                                   "write_failed", "einval"}
              /\ ~HasTerminator(call.before)

\* C20: a reload that succeeds while the handle is open closes the handle in
\* that step when the serial device or the baud rate differs from before, and
\* leaves it open when only other settings differ; an open that follows the
\* reload in the same tick uses the device and baud rate just loaded.
C20_ReloadReopensOnSerialChange ==
    [][ /\ (pc = "reload" /\ outcome' = "reloaded" /\ g_serial_fd >= 0) =>
              IF \/ config'.serial_port # config.serial_port
                 \/ config'.baud_rate # config.baud_rate
              THEN g_serial_fd' = -1 /\ handles' = {}
              ELSE g_serial_fd' = g_serial_fd /\ handles' = handles
        /\ (pc = "serial" /\ outcome = "reloaded" /\ g_serial_fd < 0 /\ g_serial_fd' >= 0) =>
              \A h \in handles' :
                  h.port = config.serial_port /\ h.baud = config.baud_rate
      ]_vars

\* a handle opened at 115200 baud served a read, a reload then found 9600 baud
\* and closed it, and the open that followed used 9600 baud
C20_Witness ==
    /\ outcome = "opened"
    /\ g_stats.successful_reads >= 1
    /\ g_stats.at_command_errors = 0
    /\ g_stats.serial_errors = 0
    /\ config.baud_rate = 9600
    /\ handles = {[fd |-> g_serial_fd, port |-> "/dev/ttyUSB2", baud |-> 9600]}

\* C21: once the stop flag is set no further iteration is started; the loop,
\* at its next check, leaves: the serial handle is closed, the lock is
\* unlocked, PID_FILE and LOCK_FILE are removed and daemon_mode returns 0
C21_StopObservedAtCheck ==
    [][ /\ shutdown_flag => g_stats'.total_iterations = g_stats.total_iterations
        /\ (shutdown_flag /\ pc = "check") =>
              /\ pc' = "done"
              /\ ret' = 0
              /\ g_serial_fd' = -1
              /\ handles' = {}
              /\ daemon_lock_fd'[Self] = -1
              /\ lockfs' = [NoFiles EXCEPT !.inodes = lockfs.inodes] ]_vars

\* the daemon has left on a stop signal that arrived while the handle was open
C21_Witness ==
    /\ pc = "done"
    /\ shutdown_flag
    /\ ret = 0
    /\ outcome \in {"ok", "parse_error", "at_error"}
    /\ g_stats.total_iterations >= 2

\* C22: from the second iteration on, a successful iteration during which the
\* hardware-monitor file is writable writes it, also when no device was found
\* at start or an earlier write failed (the path is looked up again)
C22_HwmonWrittenOnceAvailable ==
    (outcome = "ok" /\ g_stats.total_iterations >= 2 /\ "hwmon" \in writable)
        => \E x \in written : x.sink = <<"hwmon", 0>>

\* the five counters of daemon_stats_t
StatFields ==
    {"total_iterations", "successful_reads", "serial_errors", "at_command_errors",
     "parse_errors"}

\* C23: no step lowers a statistics counter, whether it reconnects, reloads
\* the configuration or closes the handle; total_iterations advances by
\* exactly one when an iteration starts and at no other step
C23_CountersOnlyGrow ==
    [][ /\ \A f \in StatFields : g_stats'[f] >= g_stats[f]
        /\ g_stats'.total_iterations =
              IF pc = "check" /\ pc' = "reload"
              THEN g_stats.total_iterations + 1 ELSE g_stats.total_iterations ]_vars

\* counted failures of every kind lie behind, the configuration was reloaded,
\* the handle was reopened and a reading was counted after that
C23_Witness ==
    /\ g_stats.serial_errors > 0
    /\ g_stats.at_command_errors > 0
    /\ g_stats.parse_errors > 0
    /\ g_stats.successful_reads > 0
    /\ reloads > 1
    /\ outcome = "ok"

\* C25: handling a response that fails parsing (no configured field, a value
\* out of range) advances parse_errors by one and changes nothing else of the
\* daemon: the handle stays open, serial_reconnect_attempts (which also counts
\* the failed commands), reconnect_delay, the other counters, the
\* configuration and every sink keep their values
C25_ParseFailureFrame ==
    [][ (pc = "read" /\ outcome' \in {"parse_error", "range_error"}) =>
            /\ g_stats' = [g_stats EXCEPT !.parse_errors = @ + 1]
            /\ g_serial_fd >= 0
            /\ g_serial_fd' = g_serial_fd
            /\ handles' = handles
            /\ serial_reconnect_attempts' = serial_reconnect_attempts
            /\ reconnect_delay' = reconnect_delay
            /\ atFails' = atFails
            /\ sinks' = sinks
            /\ config' = config
            /\ loop_config' = loop_config
            /\ ret' = ret ]_vars

\* a response failed parsing while earlier commands had failed on this handle
C25_Witness ==
    /\ pc = "stats"
    /\ outcome = "parse_error"
    /\ serial_reconnect_attempts > 0
    /\ g_serial_fd >= 0

\* C29: at the loop condition and after the loop has been left, every
\* iteration so far has advanced exactly one of serial_errors,
\* at_command_errors, parse_errors and successful_reads
C29_OneOutcomePerIteration ==
    pc \in {"check", "done"} =>
        g_stats.total_iterations =
            g_stats.serial_errors + g_stats.at_command_errors
            + g_stats.parse_errors + g_stats.successful_reads

\* the loop was left after iterations of all four kinds had been counted
C29_Witness ==
    /\ pc = "done"
    /\ g_stats.serial_errors > 0
    /\ g_stats.at_command_errors > 0
    /\ g_stats.parse_errors > 0
    /\ g_stats.successful_reads > 0

\* C24: when the loop condition is reached after an iteration whose number is
\* a multiple of STATS_LOG_INTERVAL, the statistics line of that iteration has
\* been emitted, whatever the iteration did
C24_StatsLineEveryInterval ==
    (pc \in {"check", "done"} /\ g_stats.total_iterations > 0
     /\ StatsDue(g_stats.total_iterations))
        => stats_logged = g_stats.total_iterations

\* C30: once the device is healthy and while no stop signal has arrived, the
\* daemon records a further successful read (or a stop signal arrives),
\* whatever failed before; stated for the iterations that leave room for one
\* more before the bound of the run
C30_EventuallyReadsAfterRecovery ==
    \A n \in 0..MaxRecoveryIter :
        (/\ healthy
         /\ ~shutdown_flag
         /\ g_stats.total_iterations + 1 <= MaxRecoveryIter
         /\ g_stats.successful_reads = n)
        ~> (shutdown_flag \/ g_stats.successful_reads > n)

\* the processes inside the monitoring loop, each holding a lock it acquired
InLoop == {p \in Pids : procs[p] = "loop" /\ daemon_lock_fd[p] >= 0}

\* C26: however daemons are started and stopped, at most one process is
\* inside the monitoring loop holding the daemon lock
C26_SingleDaemonInLoop == Cardinality(InLoop) <= 1

\* C27: cli_mode returns CLI_SUCCESS when it obtained a temperature,
\* CLI_ERR_SERIAL when the port could not be opened or the exchange failed and
\* CLI_ERR_OTHER when the response could not be parsed; the watch loop retries
\* at once after the serial failures only
C27_CliReturnCodes ==
    Returned("cli_mode") =>
        /\ call.rc = ( CASE call.status = "ok" -> CLI_SUCCESS
                         [] call.status \in {"Error: Serial port not available",
                                             "Error: Communication failed"} -> CLI_ERR_SERIAL
                         [] call.status = "Error: Invalid response format" -> CLI_ERR_OTHER )
        /\ WatchRetriesAtOnce(call.rc) <=>
              call.status \in {"Error: Serial port not available",
                               "Error: Communication failed"}

\* C28: while the daemon is in its loop, cli_mode neither opens the serial
\* port nor sends a command: it takes the reading from the daemon's files
C28_NoSerialAccessWhileDaemonRuns ==
    (Returned("cli_mode") /\ procs[Self] = "loop") =>
        (~call.opened /\ ~call.sent /\ call.source \in {"main", "hwmon"})

\* C31: when the loop is about to send a query, the handle it sends on was
\* opened with the serial device and the baud rate of loop_config, the
\* configuration in effect for this iteration, whatever reloads came before
C31_QueryOnConfiguredHandle ==
    (pc = "read" /\ g_serial_fd >= 0) =>
        \E h \in handles :
            /\ h.fd = g_serial_fd
            /\ h.port = loop_config.serial_port
            /\ h.baud = loop_config.baud_rate

\* C32: a reload whose config_read_uci fails leaves the configuration as it
\* was: serial device, baud rate, poll interval and labels keep the values
\* that were in effect before it
C32_FailedReloadKeepsConfig ==
    [][ (pc = "reload" /\ outcome' = "reload_failed") => config' = config ]_vars

\* C33: a response that extract_temp_values accepts has the maximum of its
\* three readings within [-40, 125] degrees, so the out-of-range branch of
\* the loop (daemon.c:321-326) is never taken
C33_RangeBranchNeverTaken ==
    /\ parsed.ok =>
          /\ BestTemp(parsed) >= CDiv(TEMP_ABSOLUTE_MIN, 1000)
          /\ BestTemp(parsed) <= CDiv(TEMP_ABSOLUTE_MAX, 1000)
    /\ outcome # "range_error"

\* a response was accepted whose maximum is the upper limit itself
C33_Witness ==
    /\ pc = "stats"
    /\ outcome = "ok"
    /\ BestTemp(parsed) = CDiv(TEMP_ABSOLUTE_MAX, 1000)

\* the entries of the class a scan looks at: the name file has a text, the
\* temp1_input is readable
Candidates == {i \in 1..Len(hwmon_class.entries) :
                  hwmon_class.entries[i].name # "" /\ hwmon_class.entries[i].temp1_input}

DeclaredName(i) ==
    LET n == hwmon_class.entries[i].name
    IN  IF Len(n) > 0 /\ SubSeq(n, Len(n), Len(n)) = "\n" THEN SubSeq(n, 1, Len(n) - 1) ELSE n

ExactCandidates ==
    {i \in Candidates : DeclaredName(i) \in {"quectel_rm520n_thermal", "quectel_rm520n_hwmon"}}

LooseCandidates ==
    {i \in Candidates \ ExactCandidates :
        \E k \in 1..Len(DeclaredName(i)) :
            k + 13 <= Len(DeclaredName(i))
            /\ SubSeq(DeclaredName(i), k, k + 13) = "quectel_rm520n"}

\* hwmonN of the entry at position i
NumberOf(i) ==
    CHOOSE n \in 0..(MaxHwmon + 1) : hwmon_class.entries[i].d_name = HwmonDirName(n)

FindReturned == pc = "returned" /\ call.fn = "find_quectel_hwmon_device"

C35_ThresholdsOrdered ==
    /\ TEMP_ABSOLUTE_MIN <= temp_min
    /\ temp_min <= temp_max
    /\ temp_max <= temp_crit
    /\ temp_crit <= TEMP_ABSOLUTE_MAX

\* C36: while threads write temp1_min and temp1_max of the hwmon device,
\* the stored minimum never exceeds the stored maximum
C36_MinNotAboveMax == data.temp_min <= data.temp_max

====
